---- MODULE Spec2Model ----
(***************************************************************************)
(* RAMSES-II protocol engine (src/src/ramses_tx/protocol_fsm.py).          *)
(*                                                                         *)
(* ProtocolContext is modelled as a record of its fields; every method is  *)
(* an operator from a context record to a context record, so that a        *)
(* handler that calls set_state() / _send_cmd() composes them the way the  *)
(* code does.  The asyncio event loop is modelled by `ready`, the FIFO of  *)
(* callbacks handed to call_soon()/create_task(); events that come from    *)
(* outside the loop (packets, timers firing, connection changes, callers)  *)
(* happen between two callbacks.  An AssertionError / InvalidStateError    *)
(* aborts the running callback where the code raises it: the fields        *)
(* assigned before that point keep their new values, `raised` is set and   *)
(* the kind of error is added to `err`.                                    *)
(***************************************************************************)
EXTENDS Integers, Sequences, FiniteSets, TLC

\* ---------------------------------------------------------------- bounds
NumCmds == 2            \* number of send() calls (one Command object each)
MaxOps == 4             \* number of add() / clr() calls on a MessageIndex
MaxReady == 4           \* an outside event is taken only while Len(ready) < MaxReady
                        \* (the timeout of a send() is taken whenever it is due)
MaxFaults == 1          \* number of transport faults: connections lost and writes that raise
MaxLate == 1            \* a time more than MaxLate seconds before a task's next_due, or
                        \* after it was due, is kept as MaxLate seconds before, or after, it

\* ------------------------------------------------------------- constants
MAX_RETRY_LIMIT == 3    \* imported from .const (line 22)

HGI_DEVICE_ID == "18:000730"    \* the sentinel gateway id
hgi_id == "18:111111"           \* protocol.hgi_id, the local interface's id
CTL_ID == "01:078710"

Inactive == "Inactive"
IsInIdle == "IsInIdle"
WantEcho == "WantEcho"
WantRply == "WantRply"

Min(a, b) == IF a < b THEN a ELSE b

\* ---------------------------------------------------------------- headers
\* A header CODE|VERB|PARTY_ID is the triple of its parts; the empty header
\* (no reply expected) is NoHdr.
NoHdr == <<"", "", "">>

\* str.replace(HGI_DEVICE_ID, hgi_id) on a header
ReplaceHgi(h) == IF h[3] = HGI_DEVICE_ID THEN <<h[1], h[2], hgi_id>> ELSE h

\* The commands a caller sends: a request that expects a reply, and an
\* announcement from the gateway itself (sentinel id in its header) that
\* expects none.
Kinds == {"RQ", "I"}
TxHdr(k) == IF k = "RQ" THEN <<"2349", "RQ", CTL_ID>> ELSE <<"30C9", " I", HGI_DEVICE_ID>>
RxHdr(k) == IF k = "RQ" THEN <<"2349", "RP", CTL_ID>> ELSE NoHdr
CmdSrc(k) == HGI_DEVICE_ID
CmdDst(k) == IF k = "RQ" THEN CTL_ID ELSE HGI_DEVICE_ID

\* A packet: its header, addresses, and the frame it carries ("RQ"/"I" when
\* the frame is that of the command of that kind, so that pkt == cmd).
NoPkt == [hdr |-> NoHdr, src |-> "", dst |-> "", frame |-> ""]
Packets ==
    {[hdr |-> TxHdr(k), src |-> CmdSrc(k), dst |-> CmdDst(k), frame |-> k] : k \in Kinds}
    \cup {[hdr |-> ReplaceHgi(TxHdr("I")), src |-> hgi_id, dst |-> hgi_id, frame |-> "x"]}
    \cup {[hdr |-> RxHdr("RQ"), src |-> CTL_ID, dst |-> d, frame |-> "x"] :
             d \in {HGI_DEVICE_ID, hgi_id}}
    \cup {[hdr |-> <<"1F09", " I", CTL_ID>>, src |-> CTL_ID, dst |-> CTL_ID, frame |-> "x"]}

\* QosParams and priority of a send(); NoSend for a Command not yet sent.
Prios == {1, 2}         \* Priority.HIGH < Priority.DEFAULT
Sends ==
    {[kind |-> "RQ", prio |-> 2, max_retries |-> 1, wait_for_reply |-> TRUE],
     [kind |-> "RQ", prio |-> 2, max_retries |-> 0, wait_for_reply |-> FALSE],
     [kind |-> "I", prio |-> 1, max_retries |-> 5, wait_for_reply |-> FALSE]}
NoSend == [kind |-> "", prio |-> 0, max_retries |-> 0, wait_for_reply |-> FALSE]
GoneSend == [kind |-> "-", prio |-> 0, max_retries |-> 0, wait_for_reply |-> FALSE]

\* The constructor's max_retry_limit argument
CtorRetryLimits == {4}

\* ---------------------------------------------------------------- futures
Cmds == 1..NumCmds
FutNone == [st |-> "none", exc |-> "", pkt |-> NoPkt]
FutPending == [st |-> "pending", exc |-> "", pkt |-> NoPkt]
FutCancelled == [st |-> "cancelled", exc |-> "", pkt |-> NoPkt]
FutGone == [st |-> "gone", exc |-> "", pkt |-> NoPkt]
FutResult(p) == [st |-> "result", exc |-> "", pkt |-> p]
FutExc(e) == [st |-> "exception", exc |-> e, pkt |-> NoPkt]
Done(f) == f.st \in {"cancelled", "result", "exception", "gone"}

\* -------------------------------------------------------------- callbacks
Effect(timed_out) == [op |-> "effect", arg |-> IF timed_out THEN 1 ELSE 0]
Check == [op |-> "check", arg |-> 0]
Write(c) == [op |-> "write", arg |-> c]
TimerTask(t) == [op |-> "timer", arg |-> t]
Tmo(c) == [op |-> "tmo", arg |-> c]

\* --------------------------------------------------------------- messages
\* The messages stored in a MessageIndex (those of
\* src/tests/tests_rf/test_database.py, lines 14-33); the header of a
\* message is CODE|VERB|PARTY_ID, and two messages with the same header
\* differ in their payload.
NoMsg == [code |-> "", verb |-> "", src |-> "", dst |-> "", payload |-> ""]
Messages ==
    {[code |-> "1298", verb |-> " I", src |-> "32:166025", dst |-> "32:166025",
      payload |-> "007FFF"],
     [code |-> "1298", verb |-> " I", src |-> "32:166025", dst |-> "32:166025",
      payload |-> "001230"],
     [code |-> "2309", verb |-> " I", src |-> "01:087939", dst |-> "01:087939",
      payload |-> "0007D0"],
     [code |-> "31DA", verb |-> " I", src |-> "32:166025", dst |-> "32:166025",
      payload |-> "00EF00"]}
MsgHdr(m) == <<m.code, m.verb, m.src>>

\* The parsed payload of a message, as its keys in order, each with whether
\* its value is None (test_database.py, lines 41-43, 108, 120-124).
Key(k) == [k |-> k, none |-> FALSE]
KeyNone(k) == [k |-> k, none |-> TRUE]
Payload(m) ==
    CASE m.payload = "007FFF" -> <<KeyNone("co2_level")>>
      [] m.payload = "001230" -> <<Key("co2_level")>>
      [] m.payload = "0007D0" -> <<Key("zone_idx"), Key("setpoint")>>
      [] m.payload = "00EF00" ->
            <<Key("hvac_id"), Key("exhaust_fan_speed"), Key("fan_info"),
              Key("_unknown_fan_info_flags"), Key("co2_level"),
              Key("indoor_humidity"), Key("exhaust_temp"), Key("indoor_temp"),
              Key("outdoor_temp"), Key("speed_capabilities"),
              Key("bypass_position"), Key("supply_fan_speed"),
              Key("remaining_mins"), Key("post_heat"), Key("pre_heat"),
              Key("supply_flow_fault"), Key("exhaust_flow_fault"), Key("_extra")>>
      [] OTHER -> <<>>

\* The context of a message (lines 136: "False" for 1298, "00" for 31DA)
MsgCtx(m) ==
    CASE m.code = "1298" -> "False"
      [] m.code = "31DA" -> "00"
      [] OTHER -> "True"

\* A string of payload keys is the sequence of its tokens, the keys and the
\* delimiter "|".  plk: the keys whose value is not None, joined by "|" and
\* framed with "|" on both ends.
Join(keys) ==
    LET F[n \in 0..Len(keys)] ==
            IF n = 0 THEN <<>>
            ELSE IF n = 1 THEN <<keys[1].k>>
            ELSE F[n - 1] \o <<"|", keys[n].k>>
    IN  F[Len(keys)]
Plk(m) == <<"|">> \o Join(SelectSeq(Payload(m), LAMBDA e : ~e.none)) \o <<"|">>

\* a occurs in b as a substring
IsSubstring(a, b) ==
    \E i \in 0..(Len(b) - Len(a)) : SubSeq(b, i + 1, i + Len(a)) = a

\* The arguments of contains(): a field that is not supplied is "" (<<>>
\* for plk).  Those of test_database.py, lines 83-90 and 127, and some that
\* combine more fields.
Query(code, verb, src, dst, ctx, plk) ==
    [code |-> code, verb |-> verb, src |-> src, dst |-> dst, ctx |-> ctx, plk |-> plk]
Queries ==
    {Query("2309", "", "", "", "", <<>>),
     Query("2309", "", "01:087939", "", "", <<>>),
     Query("2309", "", "01:12345", "", "", <<>>),
     Query("1234", "", "", "", "", <<>>),
     Query("", "", "", "01:087939", "", <<>>),
     Query("", "", "", "", "", <<"co2_level">>),
     Query("", "", "", "", "", <<"|", "co2_level", "|">>),
     Query("", " I", "32:166025", "", "00", <<>>),
     Query("1298", " I", "", "32:166025", "False", <<"|", "co2_level", "|">>),
     Query("31DA", "", "", "", "False", <<>>)}

\* The statements given to qry_field(): the text as its tokens, and what a
\* SELECT asks for: its columns, and the verbs, the codes and the plk
\* pattern ('%...%') of its WHERE clause, next to (src = ? OR dst = ?).
\* Those of test_database.py, lines 95, 99-101, 113-118 and 130-134, and
\* two statements that delete rows.
Whitespace == {" ", "\n"}
Statement(text, cols, verbs, codes, like) ==
    [text |-> text, cols |-> cols, verbs |-> verbs, codes |-> codes, like |-> like]
Statements ==
    {Statement(<<"RANDOM", " ", "from", " ", "messages">>, <<>>, {}, {}, <<>>),
     Statement(<<"\n", " ", "DELETE", " ", "from", " ", "messages">>, <<>>, {}, {}, <<>>),
     Statement(<<"DELETE", " ", "from", " ", "messages", " ", "WHERE", " ", "code",
                 " ", "in", " ", "(", "SELECT", " ", "code", " ", "from", " ",
                 "messages", ")">>, <<>>, {}, {}, <<>>),
     Statement(<<"\n", " ", "SELECT", " ", "code", ",", " ", "plk", " ", "from", " ",
                 "messages", " ", "WHERE", " ", "(", "src", " ", "=", " ", "?", " ",
                 "OR", " ", "dst", " ", "=", " ", "?", ")", "\n">>,
               <<"code", "plk">>, {}, {}, <<>>),
     Statement(<<"\n", " ", "SELECT", " ", "code", ",", " ", "plk", " ", "from", " ",
                 "messages", " ", "WHERE", " ", "verb", " ", "in", " ", "...">>,
               <<"code", "plk">>, {" I", "RP"}, {"1298", "31DA"}, <<"co2_level">>),
     Statement(<<"SELECT", " ", "code", ",", " ", "ctx", " ", "from", " ",
                 "messages", " ", "WHERE", " ", "verb", " ", "in", " ", "...">>,
               <<"code", "ctx">>, {" I", "RP"}, {}, <<"co2_level">>)}
Parties == {"32:166025", "01:087939"}

\* A call of contains() or qry_field(), and what a call returns: the
\* ValueError it raises, the answer of contains(), the tuples of qry_field()
NoQry == [op |-> "", q |-> Query("", "", "", "", "", <<>>),
          sql |-> Statement(<<>>, <<>>, {}, {}, <<>>), party |-> ""]
QryContains(q) == [NoQry EXCEPT !.op = "contains", !.q = q]
QryField(st, party) == [NoQry EXCEPT !.op = "qry_field", !.sql = st, !.party = party]
NoRet == [exc |-> "", has |-> FALSE, rows |-> <<>>]

\* The poller task: not started ("none"), created ("new"), in
\* asyncio.sleep() with `left` seconds to go ("sleep"), at the i-th item of
\* its for statement ("for"), awaiting _send_disc_task() of the i-th task
\* for `elapsed` seconds ("send"), ended by the exception `exc` ("done") or
\* cancelled; `size` is the size of _disc_tasks when the for statement began.
NoPoller == [pc |-> "none", i |-> 0, size |-> 0, left |-> 0, elapsed |-> 0, exc |-> ""]

\* A call of _add_disc_task: its arguments and the exception it raised
NoCall == [op |-> "", command |-> 0, interval |-> 0, delay |-> 0, exc |-> ""]

\* ------------------------------------------------------------------ state
\* An expire_state_on_timeout task is the one _expiry_timer refers to
\* (Current) or one that nothing refers to any more (Orphan); the code never
\* tells two orphans apart.
Current == 1
Orphan == 0

VARIABLES
    state,              \* ProtocolContext._state (the class of the state object)
    st_sent_cmd,        \* _state._sent_cmd (0 is None)
    st_echo_pkt,        \* _state._echo_pkt (NoPkt is None)
    cmd, qos, fut,      \* _cmd, _qos, _fut: the index of the send they belong to (0 is None)
    tx_count, tx_limit, \* _cmd_tx_count, _cmd_tx_limit (0 is None)
    expiry_timer,       \* _expiry_timer: "None" (or a task that has ended), "new", "sleeping"
    orphans,            \* the sleeping timer tasks that _expiry_timer no longer refers to
    lock,               \* _lock is held
    max_retry_limit,    \* self.max_retry_limit
    maxsize,            \* _que.maxsize (a PriorityQueue with maxsize <= 0 is unbounded)
    que,                \* _que: the indexes of the queued entries
    futs,               \* the future of each send
    sends,              \* priority, command kind and qos of each send
    cmd_hdr,            \* Command._hdr_ of each command (IsInIdle.cmd_sent rewrites it)
    ready,              \* the event loop's FIFO of scheduled callbacks and task steps
    writing,            \* send_fnc_wrapper tasks suspended in a transport write that will fail
    err,                \* the kinds of coding error the last step raised
    hung,               \* the loop's thread is blocked in _lock.acquire()
    txn,                \* how many times each command was handed to the transport
    waited,             \* the pairs of sends that waited in the queue at the same time
    nfault,             \* how many transport faults there were so far
    msgs,               \* MessageIndex: its rows (messages), in insertion order
    add_ret,            \* MessageIndex: what the last add() returned (NoMsg is None)
    oplog,              \* MessageIndex: the add() and clr() calls made so far
    qry,                \* MessageIndex: the last contains() or qry_field() call
    qry_ret,            \* MessageIndex: what that call returned or raised
    disc_tasks,         \* Discovery._disc_tasks: the task records, in the order of the dict
    msgz,               \* MessageDB._msgz: the messages stored, one per code, verb and ctx
    _msgs,              \* MessageDB._msgs: the messages stored, one per code
    poller,             \* Discovery._disc_tasks_poller: where _poll_disc_tasks stands
    disable_discovery,  \* gwy.config.disable_discovery
    disc_call           \* the _add_disc_task call of the last step, and what it raised

vars == <<state, st_sent_cmd, st_echo_pkt, cmd, qos, fut, tx_count, tx_limit,
          expiry_timer, orphans, lock, max_retry_limit, maxsize, que, futs, sends,
          cmd_hdr, ready, writing, err, hung, txn, waited, nfault,
          msgs, add_ret, oplog, qry, qry_ret,
          disc_tasks, msgz, _msgs, poller, disable_discovery, disc_call>>

\* A send that nothing refers to any more: its caller has returned, and the
\* context, the queue and the scheduled callbacks no longer hold its command
\* or its future.
Referenced(c) ==
    \/ futs[c].st = "pending"
    \/ c \in {cmd, qos, fut, st_sent_cmd}
    \/ c \in que \/ c \in writing
    \/ \E i \in 1..Len(ready) : ready[i] \in {Write(c), Tmo(c)}
Gone(c) == sends[c] # NoSend /\ ~Referenced(c)

\* The context as a record.  `raised` is set when the running callback has
\* been aborted by an exception nobody catches; `err` collects the errors of
\* the running step only.  The objects of a send that is Gone are forgotten.
Ctx ==
    [state |-> state, st_sent_cmd |-> st_sent_cmd, st_echo_pkt |-> st_echo_pkt,
     cmd |-> cmd, qos |-> qos, fut |-> fut, tx_count |-> tx_count,
     tx_limit |-> tx_limit, expiry_timer |-> expiry_timer, lock |-> lock,
     max_retry_limit |-> max_retry_limit, que |-> que,
     futs |-> [c \in Cmds |-> IF Gone(c) THEN FutGone ELSE futs[c]],
     sends |-> [c \in Cmds |-> IF Gone(c) THEN GoneSend ELSE sends[c]],
     cmd_hdr |-> [c \in Cmds |-> IF Gone(c) THEN NoHdr ELSE cmd_hdr[c]],
     txn |-> [c \in Cmds |-> IF Gone(c) THEN 0 ELSE txn[c]],
     waited |-> {w \in waited : \A c \in w : ~Gone(c)},
     orphans |-> orphans, ready |-> ready, writing |-> writing,
     err |-> {}, hung |-> hung, nfault |-> nfault,
     raised |-> FALSE]

Raise(s, kind) == [s EXCEPT !.raised = TRUE, !.err = @ \cup {kind}]

\* ------------------------------------------------- ProtocolContext.is_sending
\* TRUE iff none of the property's assertions fails.
IsSendingOK(s) ==
    IF s.state \in {WantEcho, WantRply}
    THEN s.cmd # 0 /\ s.qos # 0 /\ s.fut # 0
    ELSE s.cmd = 0 /\ s.qos = 0 /\ (s.fut = 0 \/ Done(s.futs[s.fut]))

\* --------------------------------------------------- ProtocolContext.set_state
\* lines 160-162: cancel the expiry timer (a task that has not yet run its
\* first step never runs it).
CancelTimer(s) ==
    IF s.expiry_timer = "None" THEN s
    ELSE [s EXCEPT !.ready = SelectSeq(@, LAMBDA e : e # TimerTask(Current)),
                   !.expiry_timer = "None"]

\* lines 166-167, 171-172, 176-179: the assert, then Future.set_result /
\* set_exception, which raises InvalidStateError on a future that is done.
SetFut(s, f) ==
    IF s.fut = 0 THEN Raise(s, "FutNoneAssert")
    ELSE IF s.futs[s.fut].st = "cancelled" THEN Raise(s, "FutCancelledAssert")
    ELSE IF s.futs[s.fut].st # "pending" THEN Raise(s, "InvalidStateError")
    ELSE [s EXCEPT !.futs[s.fut] = f]

\* lines 164-182
CompleteFut(s, expired, exception, result) ==
    IF result # NoPkt THEN SetFut(s, FutResult(result))
    ELSE IF exception # "" THEN SetFut(s, FutExc(exception))
    ELSE IF expired THEN SetFut(s, FutExc("Exceeded maximum retries"))
    ELSE s

\* line 186 with the constructors of the state classes (lines 327-332,
\* 421-424, 487-491): WantEcho and WantRply copy _sent_cmd from the state
\* they replace, WantRply copies _echo_pkt too.
NewState(s, state_class) ==
    [s EXCEPT !.state = state_class,
              !.st_sent_cmd = IF state_class \in {WantEcho, WantRply} THEN @ ELSE 0,
              !.st_echo_pkt = IF state_class = WantRply THEN @ ELSE NoPkt]

\* lines 192-203
TxLimitOfQosAlone(s) == s.sends[s.qos].max_retries + 1

TxLimit(s) == Min(s.sends[s.qos].max_retries, s.max_retry_limit) + 1

Counters_resetting_limit(s, timed_out) ==
    IF timed_out
    THEN IF s.tx_count = 0 THEN Raise(s, "TxCountAssert")
         ELSE [s EXCEPT !.tx_count = @ + 1]
    ELSE IF s.state = WantEcho
    THEN IF s.qos = 0 THEN Raise(s, "QosAssert")
         ELSE [s EXCEPT !.tx_limit = TxLimit(s), !.tx_count = 1]
    ELSE IF s.state # WantRply
    THEN [s EXCEPT !.cmd = 0, !.qos = 0, !.tx_count = 0, !.tx_limit = 0]
    ELSE s

Counters(s, timed_out) ==
    IF timed_out
    THEN IF s.tx_count = 0 THEN Raise(s, "TxCountAssert")
         ELSE [s EXCEPT !.tx_count = @ + 1]
    ELSE IF s.state = WantEcho
    THEN IF s.qos = 0 THEN Raise(s, "QosAssert")
         ELSE [s EXCEPT !.tx_limit = TxLimit(s), !.tx_count = 1]
    ELSE IF s.state # WantRply
    THEN [s EXCEPT !.cmd = 0, !.qos = 0, !.tx_count = 0]
    ELSE s

\* lines 205-208: the is_sending assertion, then call_soon(effect_state)
Defer(s, timed_out) ==
    IF ~IsSendingOK(s) THEN Raise(s, "IsSendingAssert")
    ELSE [s EXCEPT !.ready = Append(@, Effect(timed_out))]

set_state(s, state_class, expired, timed_out, exception, result) ==
    LET s1 == CompleteFut(CancelTimer(s), expired, exception, result)
        s2 == Counters(NewState(s1, state_class), timed_out)
    IN  IF s1.raised THEN s1
        ELSE IF s2.raised THEN s2
        ELSE Defer(s2, timed_out)

\* --------------------------------------------------- ProtocolContext._send_cmd
KindOf(s, c) == s.sends[c].kind

IsInIdle_cmd_sent_keeping_hdr(s, c, is_retry) ==
    IF ~(s.st_sent_cmd = 0 /\ ~is_retry) THEN Raise(s, "CmdSentAssert")
    ELSE set_state([s EXCEPT !.st_sent_cmd = c], WantEcho, FALSE, FALSE, "", NoPkt)

\* IsInIdle.cmd_sent, lines 396-411
IsInIdle_cmd_sent(s, c, is_retry) ==
    IF ~(s.st_sent_cmd = 0 /\ ~is_retry) THEN Raise(s, "CmdSentAssert")
    ELSE set_state([s EXCEPT !.st_sent_cmd = c, !.cmd_hdr[c] = ReplaceHgi(@)],
                   WantEcho, FALSE, FALSE, "", NoPkt)

\* WantEcho.cmd_sent, lines 468-473
WantEcho_cmd_sent(s, c, is_retry) ==
    IF ~(s.st_sent_cmd # 0 /\ is_retry) THEN Raise(s, "CmdSentAssert") ELSE s

\* lines 299-316; Inactive and WantRply inherit ProtocolStateBase.cmd_sent
\* (lines 364-367), which raises ProtocolFsmError.
send_cmd_(s, c, is_retry) ==
    IF s.state \in {Inactive, WantRply}
    THEN set_state(s, IsInIdle, FALSE, FALSE, "ProtocolFsmError", NoPkt)
    ELSE LET s1 == IF s.state = IsInIdle THEN IsInIdle_cmd_sent(s, c, is_retry)
                   ELSE WantEcho_cmd_sent(s, c, is_retry)
         IN  IF s1.raised THEN s1
             ELSE [s1 EXCEPT !.ready = Append(@, Write(c))]

\* ------------------------------------------------------ set_state.effect_state
\* line 158: the new task replaces _expiry_timer without cancelling the
\* task it referred to
StartTimer(s) ==
    [s EXCEPT !.orphans = IF s.expiry_timer = "sleeping" THEN @ + 1 ELSE @,
              !.expiry_timer = "new",
              !.ready = Append([i \in 1..Len(@) |->
                                   IF @[i] = TimerTask(Current) THEN TimerTask(Orphan)
                                   ELSE @[i]],
                               TimerTask(Current))]

effect_state_not_checking(s, timed_out) ==
    IF ~IsSendingOK(s) THEN Raise(s, "IsSendingAssert")
    ELSE LET s1 == IF ~timed_out THEN s
                   ELSE IF s.cmd = 0 THEN Raise(s, "CmdAssert")
                   ELSE send_cmd_(s, s.cmd, TRUE)
         IN  IF s1.raised THEN s1
             ELSE IF s1.state = IsInIdle
             THEN s1
             ELSE IF s1.state = WantRply /\ ~s1.sends[s1.qos].wait_for_reply
             THEN set_state(s1, IsInIdle, FALSE, FALSE, "", s1.st_echo_pkt)
             ELSE IF s1.state \in {WantEcho, WantRply}
             THEN StartTimer(s1)
             ELSE s1

\* lines 141-158
effect_state(s, timed_out) ==
    IF ~IsSendingOK(s) THEN Raise(s, "IsSendingAssert")
    ELSE LET s1 == IF ~timed_out THEN s
                   ELSE IF s.cmd = 0 THEN Raise(s, "CmdAssert")
                   ELSE send_cmd_(s, s.cmd, TRUE)
         IN  IF s1.raised THEN s1
             ELSE IF s1.state = IsInIdle
             THEN [s1 EXCEPT !.ready = Append(@, Check)]
             ELSE IF s1.state = WantRply /\ ~s1.sends[s1.qos].wait_for_reply
             THEN set_state(s1, IsInIdle, FALSE, FALSE, "", s1.st_echo_pkt)
             ELSE IF s1.state \in {WantEcho, WantRply}
             THEN StartTimer(s1)
             ELSE s1

\* --------------------------------------------- set_state.expire_state_on_timeout
\* lines 122-127: the task's first step, up to the sleep
timer_start(s, t) ==
    IF ~IsSendingOK(s)
    THEN Raise([s EXCEPT !.expiry_timer = IF t = Current THEN "None" ELSE @],
               "IsSendingAssert")
    ELSE IF t = Current THEN [s EXCEPT !.expiry_timer = "sleeping"]
    ELSE [s EXCEPT !.orphans = @ + 1]

timer_expired_once_more(s, t) ==
    LET s1 == IF t = Current THEN [s EXCEPT !.expiry_timer = "None"]
              ELSE [s EXCEPT !.orphans = @ - 1]
    IN  IF ~IsSendingOK(s1) THEN Raise(s1, "IsSendingAssert")
        ELSE IF s1.tx_count = 0 THEN Raise(s1, "TxCountAssert")
        ELSE IF s1.tx_count <= s1.tx_limit
        THEN set_state(s1, WantEcho, FALSE, TRUE, "", NoPkt)
        ELSE set_state(s1, IsInIdle, TRUE, FALSE, "", NoPkt)

\* lines 129-139: the step after the sleep, which ends the task
timer_expired(s, t) ==
    LET s1 == IF t = Current THEN [s EXCEPT !.expiry_timer = "None"]
              ELSE [s EXCEPT !.orphans = @ - 1]
    IN  IF ~IsSendingOK(s1) THEN Raise(s1, "IsSendingAssert")
        ELSE IF s1.tx_count = 0 THEN Raise(s1, "TxCountAssert")
        ELSE IF s1.tx_count < s1.tx_limit
        THEN set_state(s1, WantEcho, FALSE, TRUE, "", NoPkt)
        ELSE set_state(s1, IsInIdle, TRUE, FALSE, "", NoPkt)

Before_by_time_alone(s, c, d) == c < d

\* ------------------------------------------ ProtocolContext._check_buffer_for_cmd
\* (priority, enqueue time) order of the queue entries; the sends are
\* numbered in the order of the calls.
Before(s, c, d) ==
    \/ s.sends[c].prio < s.sends[d].prio
    \/ s.sends[c].prio = s.sends[d].prio /\ c < d

PendingInQue_with_done(s) == s.que

\* lines 276-289: pop entries until one has a future that is not done
PendingInQue(s) == {c \in s.que : ~Done(s.futs[c])}
NextInQue(s) == CHOOSE c \in PendingInQue(s) :
    \A d \in PendingInQue(s) : d = c \/ Before(s, c, d)

\* lines 278, 291-297: the entry c is popped with every entry before it,
\* and its command is sent
Popped_from_que(s) ==
    [c \in PendingInQue(s) |->
        send_cmd_([s EXCEPT !.que = {d \in @ : Before(s, c, d)},
                            !.cmd = c, !.qos = c, !.fut = c],
                  c, FALSE)]

check_buffer_for_cmd_unguarded(s) ==
    IF ~IsSendingOK(s) THEN Raise([s EXCEPT !.lock = TRUE], "IsSendingAssert")
    ELSE IF PendingInQue(s) = {}
    THEN [s EXCEPT !.que = {}, !.cmd = 0, !.qos = 0, !.fut = 0]
    ELSE Popped_from_que(s)[NextInQue(s)]

check_buffer_for_cmd(s) ==
    IF ~IsSendingOK(s) THEN Raise([s EXCEPT !.lock = TRUE], "IsSendingAssert")
    ELSE IF s.fut # 0 /\ ~Done(s.futs[s.fut]) THEN s
    ELSE IF PendingInQue(s) = {}
    THEN [s EXCEPT !.que = {}, !.cmd = 0, !.qos = 0, !.fut = 0]
    ELSE Popped_from_que(s)[NextInQue(s)]

WantEcho_pkt_rcvd_testing_dst(s, pkt) ==
    LET c == s.st_sent_cmd
        rx_header == RxHdr(KindOf(s, c))
        pkt__hdr == ReplaceHgi(pkt.hdr)
    IN  IF c = 0 THEN Raise(s, "SentCmdAssert")
        ELSE IF rx_header # NoHdr /\ pkt.hdr = rx_header /\ pkt.dst = CmdSrc(KindOf(s, c))
        THEN s
        ELSE IF pkt__hdr # s.cmd_hdr[c] \/ pkt.dst # CmdSrc(KindOf(s, c)) THEN s
        ELSE IF rx_header # NoHdr
        THEN set_state([s EXCEPT !.st_echo_pkt = pkt], WantRply, FALSE, FALSE, "", NoPkt)
        ELSE set_state([s EXCEPT !.st_echo_pkt = pkt], IsInIdle, FALSE, FALSE, "", pkt)

\* ------------------------------------------------------------------ pkt_rcvd
WantEcho_pkt_rcvd_taking_the_reply(s, pkt) ==
    LET c == s.st_sent_cmd
        rx_header == RxHdr(KindOf(s, c))
        pkt__hdr == ReplaceHgi(pkt.hdr)
    IN  IF c = 0 THEN Raise(s, "SentCmdAssert")
        ELSE IF rx_header # NoHdr /\ pkt.hdr = rx_header /\ pkt.dst = CmdSrc(KindOf(s, c))
        THEN set_state(s, IsInIdle, FALSE, FALSE, "", pkt)
        ELSE IF pkt__hdr # s.cmd_hdr[c] THEN s
        ELSE IF rx_header # NoHdr
        THEN set_state([s EXCEPT !.st_echo_pkt = pkt], WantRply, FALSE, FALSE, "", NoPkt)
        ELSE set_state([s EXCEPT !.st_echo_pkt = pkt], IsInIdle, FALSE, FALSE, "", pkt)

\* WantEcho.pkt_rcvd, lines 426-466
WantEcho_pkt_rcvd(s, pkt) ==
    LET c == s.st_sent_cmd
        rx_header == RxHdr(KindOf(s, c))
        pkt__hdr == ReplaceHgi(pkt.hdr)
    IN  IF c = 0 THEN Raise(s, "SentCmdAssert")
        ELSE IF rx_header # NoHdr /\ pkt.hdr = rx_header /\ pkt.dst = CmdSrc(KindOf(s, c))
        THEN s
        ELSE IF pkt__hdr # s.cmd_hdr[c] THEN s
        ELSE IF rx_header # NoHdr
        THEN set_state([s EXCEPT !.st_echo_pkt = pkt], WantRply, FALSE, FALSE, "", NoPkt)
        ELSE set_state([s EXCEPT !.st_echo_pkt = pkt], IsInIdle, FALSE, FALSE, "", pkt)

WantRply_pkt_rcvd_keeps_state(s, pkt) ==
    LET c == s.st_sent_cmd
    IN  IF c = 0 THEN Raise(s, "SentCmdAssert")
        ELSE IF pkt.frame = KindOf(s, c) THEN s
        ELSE IF pkt.hdr # RxHdr(KindOf(s, c)) THEN s
        ELSE set_state(s, WantRply, FALSE, FALSE, "", pkt)

\* WantRply.pkt_rcvd, lines 493-508
WantRply_pkt_rcvd(s, pkt) ==
    LET c == s.st_sent_cmd
    IN  IF c = 0 THEN Raise(s, "SentCmdAssert")
        ELSE IF pkt.frame = KindOf(s, c) THEN s
        ELSE IF pkt.hdr # RxHdr(KindOf(s, c)) THEN s
        ELSE set_state(s, IsInIdle, FALSE, FALSE, "", pkt)

pkt_received_as_the_base_class(s, pkt) ==
    IF s.state = WantEcho THEN WantEcho_pkt_rcvd(s, pkt)
    ELSE IF s.state = WantRply THEN WantRply_pkt_rcvd(s, pkt)
    ELSE Raise(s, "NotImplementedError")

\* ProtocolContext.pkt_received, lines 219-220; Inactive.pkt_rcvd and
\* IsInIdle.pkt_rcvd (lines 377-394) assert that the state object has no
\* _sent_cmd and do nothing else.
pkt_received(s, pkt) ==
    IF s.state = WantEcho THEN WantEcho_pkt_rcvd(s, pkt)
    ELSE IF s.state = WantRply THEN WantRply_pkt_rcvd(s, pkt)
    ELSE IF s.st_sent_cmd # 0 THEN Raise(s, "SentCmdAssert")
    ELSE s

\* ------------------------------------------------ connection_made / _lost
connection_made_in_any_state(s) ==
    set_state(s, IsInIdle, FALSE, FALSE, "", NoPkt)

\* lines 212-214, 334-336, 373-375
connection_made(s) ==
    IF s.state = Inactive THEN set_state(s, IsInIdle, FALSE, FALSE, "", NoPkt) ELSE s

\* lines 216-217, 338-350
connection_lost(s) ==
    IF s.state = Inactive THEN s
    ELSE IF s.state = IsInIdle THEN set_state(s, Inactive, FALSE, FALSE, "", NoPkt)
    ELSE set_state(s, Inactive, FALSE, FALSE, "Connection lost", NoPkt)

\* --------------------------------------------------------------- the actions
DEFAULT_BUFFER_SIZE == 32  \* imported from .const (line 19)
CtorBufferSize == 2     \* the constructor's max_buffer_size argument
max_buffer_size == Min(CtorBufferSize, DEFAULT_BUFFER_SIZE)

Apply(s) ==
    \E e \in {s} :
        /\ state' = e.state
        /\ st_sent_cmd' = e.st_sent_cmd
        /\ st_echo_pkt' = e.st_echo_pkt
        /\ cmd' = e.cmd
        /\ qos' = e.qos
        /\ fut' = e.fut
        /\ tx_count' = e.tx_count
        /\ tx_limit' = e.tx_limit
        /\ expiry_timer' = e.expiry_timer
        /\ lock' = e.lock
        /\ max_retry_limit' = e.max_retry_limit
        /\ maxsize' = maxsize
        /\ que' = e.que
        /\ futs' = e.futs
        /\ sends' = e.sends
        /\ cmd_hdr' = e.cmd_hdr
        /\ orphans' = e.orphans
        /\ ready' = e.ready
        /\ err' = e.err
        /\ hung' = e.hung
        /\ writing' = e.writing
        /\ txn' = e.txn
        /\ waited' = e.waited
        /\ nfault' = e.nfault
        /\ UNCHANGED <<msgs, add_ret, oplog, qry, qry_ret>>
        /\ UNCHANGED <<disc_tasks, msgz, _msgs, poller, disable_discovery, disc_call>>

\* ProtocolContext.__init__, lines 60-84: set_state(Inactive) has deferred
\* its effect_state.
Init ==
    /\ state = Inactive
    /\ st_sent_cmd = 0
    /\ st_echo_pkt = NoPkt
    /\ cmd = 0 /\ qos = 0 /\ fut = 0
    /\ tx_count = 0 /\ tx_limit = 0
    /\ expiry_timer = "None"
    /\ orphans = 0
    /\ lock = FALSE
    /\ max_retry_limit \in {Min(a, MAX_RETRY_LIMIT) : a \in CtorRetryLimits}
    /\ maxsize = max_buffer_size
    /\ que = {}
    /\ futs = [c \in Cmds |-> FutNone]
    /\ sends = [c \in Cmds |-> NoSend]
    /\ cmd_hdr = [c \in Cmds |-> NoHdr]
    /\ ready = <<Effect(FALSE)>>
    /\ writing = {}
    /\ err = {}
    /\ hung = FALSE
    /\ txn = [c \in Cmds |-> 0]
    /\ waited = {}
    /\ nfault = 0
    /\ msgs = <<>> /\ add_ret = NoMsg /\ oplog = <<>>
    /\ qry = NoQry /\ qry_ret = NoRet
    /\ disc_tasks = <<>> /\ msgz = {} /\ _msgs = {} /\ poller = NoPoller
    /\ disable_discovery = FALSE /\ disc_call = NoCall

\* The loop runs the callback at the head of `ready`.
Runs(op) == ~hung /\ ready # <<>> /\ Head(ready).op = op
Popped == [Ctx EXCEPT !.ready = Tail(ready)]
\* An event from outside the loop
Outside == ~hung /\ Len(ready) < MaxReady

RunEffect ==
    /\ Runs("effect")
    /\ Apply(effect_state(Popped, Head(ready).arg = 1))

\* _lock.acquire() on a lock that is held blocks the loop's only thread.
RunCheck ==
    /\ Runs("check")
    /\ IF lock THEN Apply([Ctx EXCEPT !.hung = TRUE])
       ELSE Apply(check_buffer_for_cmd(Popped))

RunTimerStart ==
    /\ Runs("timer")
    /\ Apply(timer_start(Popped, Head(ready).arg))

\* expire_state_on_timeout wakes from its sleep
TimerExpires(t) ==
    /\ Outside
    /\ IF t = Current THEN expiry_timer = "sleeping" ELSE orphans > 0
    /\ Apply(timer_expired(Ctx, t))

RunWrite_error_not_handled ==
    /\ Runs("write")
    /\ LET c == Head(ready).arg
           s == [Popped EXCEPT !.txn[c] = @ + 1]
           f == [s EXCEPT !.nfault = @ + 1]
       IN  \/ Apply(s)
           \/ /\ nfault < MaxFaults
              /\ \/ Apply(f)
                 \/ c \notin writing /\ Apply([f EXCEPT !.writing = @ \cup {c}])

\* send_fnc_wrapper, lines 302-306: the awaited write succeeds (whenever it
\* ends, nothing follows it), raises TransportError at once, or raises it
\* after the task was suspended in the transport.
RunWrite ==
    /\ Runs("write")
    /\ LET c == Head(ready).arg
           s == [Popped EXCEPT !.txn[c] = @ + 1]
           f == [s EXCEPT !.nfault = @ + 1]
       IN  \/ Apply(s)
           \/ /\ nfault < MaxFaults
              /\ \/ Apply(set_state(f, IsInIdle, FALSE, FALSE, "TransportError", NoPkt))
                 \/ c \notin writing /\ Apply([f EXCEPT !.writing = @ \cup {c}])

\* a suspended write raises TransportError
WriteFails(c) ==
    /\ Outside
    /\ c \in writing
    /\ Apply(set_state([Ctx EXCEPT !.writing = @ \ {c}],
                       IsInIdle, FALSE, FALSE, "TransportError", NoPkt))

\* Queue.put_nowait raises Full (line 243)
Full == maxsize > 0 /\ Cardinality(que) >= maxsize

SendCmd_without_transport_test(p) ==
    /\ Outside
    /\ \E c \in Cmds :
        /\ sends[c] = NoSend
        /\ \A d \in Cmds : d < c => sends[d] # NoSend
        /\ LET s == [Ctx EXCEPT !.sends[c] = p, !.cmd_hdr[c] = TxHdr(p.kind)]
           IN  IF Full
               THEN Apply([s EXCEPT !.futs[c] = FutCancelled])
               ELSE Apply([s EXCEPT !.futs[c] = FutPending,
                                    !.waited = @ \cup {{c, d} : d \in PendingInQue(s)},
                                    !.que = @ \cup {c},
                                    !.ready = IF state = IsInIdle
                                              THEN Append(@, Check) ELSE @])

\* ProtocolContext.send_cmd up to its await, lines 235-254
SendCmd(p) ==
    /\ Outside
    /\ \E c \in Cmds :
        /\ sends[c] = NoSend
        /\ \A d \in Cmds : d < c => sends[d] # NoSend
        /\ LET s == [Ctx EXCEPT !.sends[c] = p, !.cmd_hdr[c] = TxHdr(p.kind)]
           IN  IF state = Inactive THEN Apply(s)
               ELSE IF Full
               THEN Apply([s EXCEPT !.futs[c] = FutCancelled])
               ELSE Apply([s EXCEPT !.futs[c] = FutPending,
                                    !.waited = @ \cup {{c, d} : d \in PendingInQue(s)},
                                    !.que = @ \cup {c},
                                    !.ready = IF state = IsInIdle
                                              THEN Append(@, Check) ELSE @])

\* asyncio.wait_for, line 254: the timeout cancels the future, and send_cmd
\* resumes in a later step of the loop.
OuterTimeout(c) ==
    /\ ~hung
    /\ futs[c].st = "pending"
    /\ Apply([Ctx EXCEPT !.futs[c] = FutCancelled, !.ready = Append(@, Tmo(c))])

RunTmo_whatever_is_in_flight ==
    /\ Runs("tmo")
    /\ Apply(set_state(Popped, IsInIdle, FALSE, FALSE, "", NoPkt))

\* send_cmd's except TimeoutError, lines 255-259
RunTmo ==
    /\ Runs("tmo")
    /\ IF cmd = Head(ready).arg
       THEN Apply(set_state(Popped, IsInIdle, FALSE, FALSE, "", NoPkt))
       ELSE Apply(Popped)

PktReceived(pkt) ==
    /\ Outside
    /\ Apply(pkt_received(Ctx, pkt))

ConnectionMade ==
    /\ Outside
    /\ Apply(connection_made(Ctx))

ConnectionLost ==
    /\ Outside
    /\ state = Inactive \/ nfault < MaxFaults
    /\ Apply(connection_lost([Ctx EXCEPT !.nfault = IF state = Inactive THEN @ ELSE @ + 1]))

Next ==
    \/ RunEffect
    \/ RunCheck
    \/ RunTimerStart
    \/ RunWrite
    \/ RunTmo
    \/ \E t \in {Current, Orphan} : TimerExpires(t)
    \/ \E c \in Cmds : WriteFails(c)
    \/ \E p \in Sends : SendCmd(p)
    \/ \E c \in Cmds : OuterTimeout(c)
    \/ \E pkt \in Packets : PktReceived(pkt)
    \/ ConnectionMade
    \/ ConnectionLost

Spec == Init /\ [][Next]_vars

TypeOK ==
    /\ state \in {Inactive, IsInIdle, WantEcho, WantRply}
    /\ orphans \in Nat

\* ------------------------------------------------- the undisturbed engine
\* The engine when no echo and no reply arrives, no send() times out, the
\* connection is not lost and no write fails.
QuietPackets ==
    {p \in Packets : \A k \in Kinds :
        ReplaceHgi(p.hdr) # ReplaceHgi(TxHdr(k)) /\ p.hdr # RxHdr(k)}

\* send_fnc_wrapper, lines 302-304: the awaited write succeeds
RunWriteDone ==
    /\ Runs("write")
    /\ Apply([Popped EXCEPT !.txn[Head(ready).arg] = @ + 1])

NextQuiet ==
    \/ RunEffect
    \/ RunCheck
    \/ RunTimerStart
    \/ RunWriteDone
    \/ \E t \in {Current, Orphan} : TimerExpires(t)
    \/ \E p \in Sends : SendCmd(p)
    \/ \E pkt \in QuietPackets : PktReceived(pkt)
    \/ ConnectionMade

SpecQuiet == Init /\ [][NextQuiet]_vars

\* ------------------------------------------------------ the running loop
\* The engine with requests only, their echoes and replies, and writes that
\* succeed.  The event loop runs every callback it has scheduled
\* (call_soon_threadsafe, create_task), so each step of the loop is taken
\* when it stays possible; nothing is assumed of the events from outside.
LoopSends == {p \in Sends : p.kind = "RQ"}
LoopPackets ==
    {p \in Packets : p.hdr \in {TxHdr("RQ"), RxHdr("RQ")} /\ p.dst # hgi_id}

NextLoop ==
    \/ RunEffect
    \/ RunCheck
    \/ RunTimerStart
    \/ RunWriteDone
    \/ RunTmo
    \/ \E t \in {Current, Orphan} : TimerExpires(t)
    \/ \E p \in LoopSends : SendCmd(p)
    \/ \E c \in Cmds : OuterTimeout(c)
    \/ \E pkt \in LoopPackets : PktReceived(pkt)
    \/ ConnectionMade
    \/ ConnectionLost

SpecLoop ==
    /\ Init /\ [][NextLoop]_vars
    /\ WF_vars(RunEffect) /\ WF_vars(RunCheck) /\ WF_vars(RunTimerStart)
    /\ WF_vars(RunWriteDone) /\ WF_vars(RunTmo)

\* --------------------------------------- the constructor's max_retry_limit
\* The engine constructed with a max_retry_limit below and above
\* MAX_RETRY_LIMIT (line 63).
CtorRetryLimitsWide == {1, 4}

InitCtor ==
    /\ state = Inactive
    /\ st_sent_cmd = 0
    /\ st_echo_pkt = NoPkt
    /\ cmd = 0 /\ qos = 0 /\ fut = 0
    /\ tx_count = 0 /\ tx_limit = 0
    /\ expiry_timer = "None"
    /\ orphans = 0
    /\ lock = FALSE
    /\ max_retry_limit \in {Min(a, MAX_RETRY_LIMIT) : a \in CtorRetryLimitsWide}
    /\ maxsize = max_buffer_size
    /\ que = {}
    /\ futs = [c \in Cmds |-> FutNone]
    /\ sends = [c \in Cmds |-> NoSend]
    /\ cmd_hdr = [c \in Cmds |-> NoHdr]
    /\ ready = <<Effect(FALSE)>>
    /\ writing = {}
    /\ err = {}
    /\ hung = FALSE
    /\ txn = [c \in Cmds |-> 0]
    /\ waited = {}
    /\ nfault = 0
    /\ msgs = <<>> /\ add_ret = NoMsg /\ oplog = <<>>
    /\ qry = NoQry /\ qry_ret = NoRet
    /\ disc_tasks = <<>> /\ msgz = {} /\ _msgs = {} /\ poller = NoPoller
    /\ disable_discovery = FALSE /\ disc_call = NoCall

SpecCtor == InitCtor /\ [][Next]_vars

\* ---------------------------------------- the constructor's max_buffer_size
\* The engine constructed with a max_buffer_size of zero, of one, and above
\* DEFAULT_BUFFER_SIZE (lines 64, 69-71).
CtorBufferSizes == {0, 1, 40}

InitBuf ==
    /\ state = Inactive
    /\ st_sent_cmd = 0
    /\ st_echo_pkt = NoPkt
    /\ cmd = 0 /\ qos = 0 /\ fut = 0
    /\ tx_count = 0 /\ tx_limit = 0
    /\ expiry_timer = "None"
    /\ orphans = 0
    /\ lock = FALSE
    /\ max_retry_limit \in {Min(a, MAX_RETRY_LIMIT) : a \in CtorRetryLimits}
    /\ maxsize \in {Min(a, DEFAULT_BUFFER_SIZE) : a \in CtorBufferSizes}
    /\ que = {}
    /\ futs = [c \in Cmds |-> FutNone]
    /\ sends = [c \in Cmds |-> NoSend]
    /\ cmd_hdr = [c \in Cmds |-> NoHdr]
    /\ ready = <<Effect(FALSE)>>
    /\ writing = {}
    /\ err = {}
    /\ hung = FALSE
    /\ txn = [c \in Cmds |-> 0]
    /\ waited = {}
    /\ nfault = 0
    /\ msgs = <<>> /\ add_ret = NoMsg /\ oplog = <<>>
    /\ qry = NoQry /\ qry_ret = NoRet
    /\ disc_tasks = <<>> /\ msgz = {} /\ _msgs = {} /\ poller = NoPoller
    /\ disable_discovery = FALSE /\ disc_call = NoCall

SpecBuf == InitBuf /\ [][Next]_vars

\* ------------------------------------------------------------ MessageIndex
\* The message index (ramses_rf/database.py): add, clr, all and contains on
\* the rows, a sequence of messages with at most one row per header.
fsm_vars == <<state, st_sent_cmd, st_echo_pkt, cmd, qos, fut, tx_count, tx_limit,
              expiry_timer, orphans, lock, max_retry_limit, maxsize, que, futs,
              sends, cmd_hdr, ready, writing, err, hung, txn, waited, nfault>>

disc_vars == <<disc_tasks, msgz, _msgs, poller, disable_discovery, disc_call>>

\* add(msg): the row it replaces, if any, is what it returns
add_returns_nothing(rows, m) == NoMsg

add_returns(rows, m) ==
    IF \E i \in 1..Len(rows) : MsgHdr(rows[i]) = MsgHdr(m)
    THEN rows[CHOOSE i \in 1..Len(rows) : MsgHdr(rows[i]) = MsgHdr(m)]
    ELSE NoMsg

\* add(msg): the rows afterwards
add_rows_without_replacing(rows, m) == Append(rows, m)

add_rows(rows, m) ==
    Append(SelectSeq(rows, LAMBDA r : MsgHdr(r) # MsgHdr(m)), m)

\* contains(hdr=...), contains(code=...) and the row a header is stored under
contains_hdr(rows, h) == \E i \in 1..Len(rows) : MsgHdr(rows[i]) = h
contains_code(rows, code) == \E i \in 1..Len(rows) : rows[i].code = code
all_rows(rows) == rows

\* contains(code=..., verb=..., src=..., dst=..., ctx=..., plk=...): some row
\* has every field that is supplied; plk="co2_level" finds no row when there
\* are rows with the plk "|co2_level|" and "|hvac_id|...|co2_level|...",
\* while plk="|co2_level|" finds one (test_database.py, lines 90, 120-127).
PlkMatches(row_plk, plk) == row_plk = plk

RowMatches(r, q) ==
    /\ q.code = "" \/ r.code = q.code
    /\ q.verb = "" \/ r.verb = q.verb
    /\ q.src = "" \/ r.src = q.src
    /\ q.dst = "" \/ r.dst = q.dst
    /\ q.ctx = "" \/ MsgCtx(r) = q.ctx
    /\ q.plk = <<>> \/ PlkMatches(Plk(r), q.plk)

contains(rows, q) == \E i \in 1..Len(rows) : RowMatches(rows[i], q)

\* qry_field(sql, parameters): a statement whose first token that is not
\* whitespace is not SELECT raises ValueError; a SELECT returns the columns
\* of the rows its WHERE clause selects, in the order of the rows.
FirstToken(text) ==
    LET I == {i \in 1..Len(text) : text[i] \notin Whitespace}
    IN  IF I = {} THEN "" ELSE text[CHOOSE i \in I : \A j \in I : i <= j]

Column(r, c) ==
    CASE c = "code" -> <<r.code>>
      [] c = "plk" -> Plk(r)
      [] c = "ctx" -> <<MsgCtx(r)>>

Selected(r, st, party) ==
    /\ r.src = party \/ r.dst = party
    /\ st.verbs = {} \/ r.verb \in st.verbs
    /\ st.codes = {} \/ r.code \in st.codes
    /\ st.like = <<>> \/ IsSubstring(st.like, Plk(r))

Select(rows, st, party) ==
    LET sel == SelectSeq(rows, LAMBDA r : Selected(r, st, party))
    IN  [i \in 1..Len(sel) |-> [j \in 1..Len(st.cols) |-> Column(sel[i], st.cols[j])]]

qry_field_with_select_anywhere(rows, st, party) ==
    IF \A i \in 1..Len(st.text) : st.text[i] # "SELECT"
    THEN [NoRet EXCEPT !.exc = "ValueError"]
    ELSE [NoRet EXCEPT !.rows = Select(rows, st, party)]

qry_field(rows, st, party) ==
    IF FirstToken(st.text) # "SELECT"
    THEN [NoRet EXCEPT !.exc = "ValueError"]
    ELSE [NoRet EXCEPT !.rows = Select(rows, st, party)]

\* the rows after qry_field()
qry_field_rows(rows, st) == rows

OpAdd(m) == [op |-> "add", msg |-> m]
OpClr == [op |-> "clr", msg |-> NoMsg]

MessageIndexAdd(m) ==
    /\ Len(oplog) < MaxOps
    /\ msgs' = add_rows(msgs, m)
    /\ add_ret' = add_returns(msgs, m)
    /\ oplog' = Append(oplog, OpAdd(m))
    /\ UNCHANGED <<qry, qry_ret>>
    /\ UNCHANGED fsm_vars
    /\ UNCHANGED disc_vars

MessageIndexClr ==
    /\ Len(oplog) < MaxOps
    /\ msgs' = <<>>
    /\ oplog' = Append(oplog, OpClr)
    /\ UNCHANGED <<add_ret, qry, qry_ret>>
    /\ UNCHANGED fsm_vars
    /\ UNCHANGED disc_vars

MessageIndexContains(q) ==
    /\ qry' = QryContains(q)
    /\ qry_ret' = [NoRet EXCEPT !.has = contains(msgs, q)]
    /\ UNCHANGED <<msgs, add_ret, oplog>>
    /\ UNCHANGED fsm_vars
    /\ UNCHANGED disc_vars

MessageIndexQryField(st, party) ==
    /\ qry' = QryField(st, party)
    /\ qry_ret' = qry_field(msgs, st, party)
    /\ msgs' = qry_field_rows(msgs, st)
    /\ UNCHANGED <<add_ret, oplog>>
    /\ UNCHANGED fsm_vars
    /\ UNCHANGED disc_vars

NextIndex ==
    \/ \E m \in Messages : MessageIndexAdd(m)
    \/ MessageIndexClr
    \/ \E q \in Queries : MessageIndexContains(q)
    \/ \E st \in Statements, party \in Parties : MessageIndexQryField(st, party)

SpecIndex == Init /\ [][NextIndex]_vars

\* ---------------------------------------------------------------- Discovery
\* The discovery poller of an entity (src/ramses_rf/entity_base.py, class
\* Discovery) and the entity's message store (class MessageDB).  A string
\* that the code slices is the sequence of its characters; a device id is
\* one token.  Time is kept relative to dt.now(): a datetime is the number
\* of seconds from now (negative when past), and a step of the clock moves
\* every datetime one second towards the past.
dt_now == 0

MIN_CYCLE_SECS == 3
MAX_CYCLE_SECS == 10

I_ == <<" ", "I">>
RP == <<"R", "P">>
RQ == <<"R", "Q">>
W_ == <<" ", "W">>
Code2349 == <<"2", "3", "4", "9">>
Code30C9 == <<"3", "0", "C", "9">>

\* a header CODE|VERB|PARTY_ID
Hdr(code, verb, addr) == code \o <<"|">> \o verb \o <<"|", addr>>

\* str.split("|")
Split(str) ==
    LET F[n \in 0..Len(str)] ==
            IF n = 0 THEN << <<>> >>
            ELSE IF str[n] = "|" THEN Append(F[n - 1], <<>>)
            ELSE [F[n - 1] EXCEPT ![Len(F[n - 1])] = Append(@, str[n])]
    IN  F[Len(str)]

\* A message: its code, verb and context, the header of its packet, and its
\* timestamp.  NoMessage is None.
Message(code, verb, addr, dtm) ==
    [code |-> code, verb |-> verb, ctx |-> "False", hdr |-> Hdr(code, verb, addr), dtm |-> dtm]
NoMessage == [code |-> <<>>, verb |-> <<>>, ctx |-> "", hdr |-> <<>>, dtm |-> 0]

\* The commands given to _add_disc_task: two with different rx_headers and
\* a third with the rx_header of the first.
DiscCmds ==
    {[id |-> 1, rx_header |-> Hdr(Code2349, RP, CTL_ID), retries |-> 0, qos_timeout |-> 1],
     [id |-> 2, rx_header |-> Hdr(Code30C9, RP, CTL_ID), retries |-> 0, qos_timeout |-> 1],
     [id |-> 3, rx_header |-> Hdr(Code2349, RP, CTL_ID), retries |-> 0, qos_timeout |-> 1]}
\* The calls of _add_disc_task: the command, the interval and the delay
DiscCalls ==
    {<<1, 2, 0>>, <<1, 3, 1>>, <<2, 3, 0>>, <<2, 2, 1>>, <<3, 3, 1>>}
\* the longest interval of a call
MaxInterval == CHOOSE n \in {call[2] : call \in DiscCalls} :
                   \A call \in DiscCalls : call[2] <= n

\* The messages the entity is given: an unsolicited message with the code
\* of the first command, from the device that command is sent to.
Inbound == {Message(Code2349, I_, CTL_ID, dt_now)}
\* The messages the entity's store is given: of two codes, of every verb,
\* and one with a context of its own.
Handled ==
    Inbound \cup
    {Message(Code2349, RP, CTL_ID, dt_now), Message(Code2349, RQ, CTL_ID, dt_now),
     Message(Code2349, W_, CTL_ID, dt_now), Message(Code30C9, I_, CTL_ID, dt_now),
     [Message(Code2349, I_, CTL_ID, dt_now) EXCEPT !.ctx = "01"]}

\* The entity as a record
Disc ==
    [disc_tasks |-> disc_tasks, msgz |-> msgz, msgs |-> _msgs, poller |-> poller,
     disable_discovery |-> disable_discovery, disc_call |-> NoCall]

handle_msg_latest_of_any_verb(s, msg) ==
    {m \in s : m.code # msg.code} \cup {msg}

\* MessageDB._handle_msg, lines 178-179: _msgs[code]
handle_msg_latest(s, msg) ==
    IF msg.verb \in {I_, RP} THEN {m \in s : m.code # msg.code} \cup {msg} ELSE s

\* MessageDB._handle_msg, lines 175-186
handle_msg(z, msg) ==
    {m \in z : <<m.code, m.verb, m.ctx>> # <<msg.code, msg.verb, msg.ctx>>} \cup {msg}

\* MessageDB._get_msg_by_hdr, lines 201-219: the message found (NoMessage
\* for None), or the exception raised
get_msg_by_hdr(z, hdr) ==
    LET parts == Split(hdr)
        code == parts[1]
        verb == parts[2]
        args == SubSeq(parts, 4, Len(parts))
        under(ctx) == {m \in z : m.code = code /\ m.verb = verb /\ m.ctx = ctx}
        verbs == {m \in z : m.code = code /\ m.verb = verb}
        found(m) == IF m.hdr # hdr THEN [exc |-> "LookupError", msg |-> NoMessage]
                    ELSE [exc |-> "", msg |-> m]
    IN  IF Len(parts) < 3 THEN [exc |-> "ValueError", msg |-> NoMessage]
        ELSE IF args # <<>> /\ args[1] # <<>>
        THEN IF under(args[1]) = {} THEN [exc |-> "", msg |-> NoMessage]
             ELSE found(CHOOSE m \in under(args[1]) : TRUE)
        ELSE IF verbs = {} THEN [exc |-> "", msg |-> NoMessage]
        ELSE IF under("False") # {} THEN found(CHOOSE m \in under("False") : TRUE)
        ELSE IF under("None") # {} THEN found(CHOOSE m \in under("None") : TRUE)
        ELSE [exc |-> "UnboundLocalError", msg |-> NoMessage]

add_disc_task_overwriting(d, command, interval, delay, timeout) ==
    LET rec == [hdr |-> command.rx_header, command |-> command, interval |-> interval,
                last_msg |-> NoMessage, last_ran |-> <<>>, next_due |-> dt_now + delay,
                timeout |-> IF timeout # 0 THEN timeout
                            ELSE (command.retries + 1) * command.qos_timeout]
    IN  IF \E i \in 1..Len(d.disc_tasks) : d.disc_tasks[i].hdr = command.rx_header
        THEN [d EXCEPT !.disc_tasks = [i \in 1..Len(@) |->
                                        IF @[i].hdr = command.rx_header THEN rec ELSE @[i]]]
        ELSE [d EXCEPT !.disc_tasks = Append(@, rec)]

\* Discovery._add_disc_task, lines 360-375 (timeout 0 is None)
add_disc_task(d, command, interval, delay, timeout) ==
    IF \E i \in 1..Len(d.disc_tasks) : d.disc_tasks[i].hdr = command.rx_header
    THEN [d EXCEPT !.disc_call.exc = "ValueError"]
    ELSE [d EXCEPT !.disc_tasks = Append(@,
            [hdr |-> command.rx_header,
             command |-> command,
             interval |-> interval,
             last_msg |-> NoMessage,
             last_ran |-> <<>>,
             next_due |-> dt_now + delay,
             timeout |-> IF timeout # 0 THEN timeout
                         ELSE (command.retries + 1) * command.qos_timeout])]

\* the poller task ends with an exception
Raised(d, exc) == [d EXCEPT !.poller = [NoPoller EXCEPT !.pc = "done", !.exc = exc]]

\* lines 414-420
NextSleep(d) ==
    LET due == {d.disc_tasks[i].next_due : i \in 1..Len(d.disc_tasks)}
        seconds == (CHOOSE t \in due : \A u \in due : t <= u) - dt_now
        clamp == IF seconds < MIN_CYCLE_SECS THEN MIN_CYCLE_SECS
                 ELSE IF seconds > MAX_CYCLE_SECS THEN MAX_CYCLE_SECS ELSE seconds
    IN  [d EXCEPT !.poller = [NoPoller EXCEPT !.pc = "sleep",
            !.left = IF d.disc_tasks # <<>> THEN clamp ELSE MAX_CYCLE_SECS]]

\* line 392: the header looked up for a task
LookedUp(hdr) == I_ \o SubSeq(hdr, 3, Len(hdr))

\* lines 411-412
Rescheduled(d, i, msg) ==
    [d EXCEPT !.disc_tasks[i].last_msg = msg,
              !.disc_tasks[i].last_ran = <<msg.dtm>>,
              !.disc_tasks[i].next_due = msg.dtm + d.disc_tasks[i].interval]

for_item_deferring_again(d) ==
    LET i == d.poller.i
    IN  IF Len(d.disc_tasks) # d.poller.size
        THEN Raised(d, "RuntimeError")
        ELSE IF i > d.poller.size THEN NextSleep(d)
        ELSE LET task == d.disc_tasks[i]
                 got == get_msg_by_hdr(d.msgz,
                            SubSeq(task.hdr, 1, 5) \o I_ \o SubSeq(task.hdr, 8, Len(task.hdr)))
             IN  IF got.exc # "" THEN Raised(d, got.exc)
                 ELSE IF got.msg # NoMessage
                         /\ task.next_due <= got.msg.dtm + task.interval
                 THEN [Rescheduled(d, i, got.msg) EXCEPT !.poller.i = i + 1]
                 ELSE IF task.next_due <= dt_now
                 THEN [d EXCEPT !.poller.pc = "send", !.poller.elapsed = 0]
                 ELSE [d EXCEPT !.poller.i = i + 1]

\* lines 391-412: one turn of the for statement, up to the next turn or the
\* await; poller.i is the item it is at (the dict's iterator raises
\* RuntimeError when the dict has grown, and the loop ends after the last
\* item)
for_item(d) ==
    LET i == d.poller.i
    IN  IF Len(d.disc_tasks) # d.poller.size
        THEN Raised(d, "RuntimeError")
        ELSE IF i > d.poller.size THEN NextSleep(d)
        ELSE LET task == d.disc_tasks[i]
                 got == get_msg_by_hdr(d.msgz, LookedUp(task.hdr))
             IN  IF got.exc # "" THEN Raised(d, got.exc)
                 ELSE IF got.msg # NoMessage
                         /\ task.next_due < got.msg.dtm + task.interval
                 THEN [Rescheduled(d, i, got.msg) EXCEPT !.poller.i = i + 1]
                 ELSE IF task.next_due <= dt_now
                 THEN [d EXCEPT !.poller.pc = "send", !.poller.elapsed = 0]
                 ELSE [d EXCEPT !.poller.i = i + 1]

\* lines 386-391: one turn of `while True`, up to the for statement
WhileTrue(d) ==
    IF d.disable_discovery
    THEN [d EXCEPT !.poller = [NoPoller EXCEPT !.pc = "sleep", !.left = MIN_CYCLE_SECS]]
    ELSE [d EXCEPT !.poller = [NoPoller EXCEPT !.pc = "for", !.i = 1,
                                              !.size = Len(d.disc_tasks)]]

send_returned_clearing_last_msg(d, msg) ==
    IF msg # NoMessage
    THEN [Rescheduled(d, d.poller.i, msg) EXCEPT !.poller.pc = "for", !.poller.i = @ + 1]
    ELSE [d EXCEPT !.disc_tasks[d.poller.i].last_msg = NoMessage,
                   !.poller.pc = "for", !.poller.i = @ + 1]

send_returned_sending_again(d, msg) ==
    IF msg # NoMessage
    THEN [Rescheduled(d, d.poller.i, msg) EXCEPT !.poller.pc = "for", !.poller.i = @ + 1]
    ELSE [d EXCEPT !.poller.pc = "for"]

\* lines 403-412 after the await: _send_disc_task returned msg (NoMessage
\* for None)
send_returned(d, msg) ==
    IF msg # NoMessage
    THEN [Rescheduled(d, d.poller.i, msg) EXCEPT !.poller.pc = "for", !.poller.i = @ + 1]
    ELSE [d EXCEPT !.poller.pc = "for", !.poller.i = @ + 1]

ApplyDisc(d) ==
    /\ \E e \in {d} :
        /\ disc_tasks' = e.disc_tasks
        /\ msgz' = e.msgz
        /\ _msgs' = e.msgs
        /\ poller' = e.poller
        /\ disable_discovery' = e.disable_discovery
        /\ disc_call' = e.disc_call
    /\ UNCHANGED fsm_vars
    /\ UNCHANGED <<msgs, add_ret, oplog, qry, qry_ret>>

\* While the poller is in its for statement the loop runs nothing else.
Between == poller.pc # "for"

AddDiscTask(call) ==
    /\ Between
    /\ call \in DiscCalls
    /\ LET command == CHOOSE c \in DiscCmds : c.id = call[1]
           interval == call[2]
           delay == call[3]
       IN  ApplyDisc(add_disc_task(
               [Disc EXCEPT !.disc_call = [NoCall EXCEPT !.op = "_add_disc_task",
                       !.command = command.id, !.interval = interval, !.delay = delay]],
               command, interval, delay, 0))

\* lines 352-358
StartDiscovery ==
    /\ Between
    /\ poller.pc \in {"none", "done", "cancelled"}
    /\ ApplyDisc([Disc EXCEPT !.poller = [NoPoller EXCEPT !.pc = "new"]])

StopDiscovery ==
    /\ Between
    /\ poller.pc \notin {"none", "done", "cancelled"}
    /\ ApplyDisc([Disc EXCEPT !.poller = [NoPoller EXCEPT !.pc = "cancelled"]])

SetDisableDiscovery(b) ==
    /\ Between
    /\ disable_discovery # b
    /\ ApplyDisc([Disc EXCEPT !.disable_discovery = b])

HandleMsg(msg) ==
    /\ Between
    /\ msg \in Handled
    /\ ApplyDisc([Disc EXCEPT !.msgs = handle_msg_latest(@, msg),
                              !.msgz = handle_msg(@, msg)])

\* the poller task runs: its first step, or its sleep has ended
PollerRuns ==
    /\ poller.pc = "new" \/ (poller.pc = "sleep" /\ poller.left = 0)
    /\ ApplyDisc(WhileTrue(Disc))

ForItem ==
    /\ poller.pc = "for"
    /\ ApplyDisc(for_item(Disc))

\* _send_disc_task, lines 422-438: the reply is returned
SendReplied ==
    /\ poller.pc = "send"
    /\ poller.elapsed < disc_tasks[poller.i].timeout * 5
    /\ ApplyDisc(send_returned(Disc,
            [NoMessage EXCEPT !.code = Split(disc_tasks[poller.i].hdr)[1],
                              !.verb = RP, !.ctx = "False",
                              !.hdr = disc_tasks[poller.i].hdr, !.dtm = dt_now]))

\* wait_for raises TimeoutError, which is caught
SendTimedOut ==
    /\ poller.pc = "send"
    /\ poller.elapsed = disc_tasks[poller.i].timeout * 5
    /\ ApplyDisc(send_returned(Disc, NoMessage))

\* async_send_cmd raises TypeError, which is caught, or another exception,
\* which is not
SendRaised(exc) ==
    /\ poller.pc = "send"
    /\ poller.elapsed < disc_tasks[poller.i].timeout * 5
    /\ IF exc = "TypeError" THEN ApplyDisc(send_returned(Disc, NoMessage))
       ELSE ApplyDisc(Raised(Disc, exc))

\* A second passes, unless a sleep or a wait_for of the poller is due.
Past(t, most) == IF t - 1 < 0 - most THEN 0 - most ELSE t - 1
Tick ==
    /\ Between
    /\ ~(poller.pc \in {"new", "sleep"} /\ poller.left = 0)
    /\ ~(poller.pc = "send" /\ poller.elapsed = disc_tasks[poller.i].timeout * 5)
    /\ ApplyDisc([Disc EXCEPT
            !.disc_tasks = [i \in 1..Len(@) |->
                [@[i] EXCEPT !.next_due = Past(@, MaxLate),
                             !.last_ran = IF @ = <<>> THEN @
                                          ELSE <<Past(@[1], MaxLate + MaxInterval)>>,
                             !.last_msg = IF @ = NoMessage THEN @
                                          ELSE [@ EXCEPT !.dtm = Past(@, MaxLate + MaxInterval)]]],
            !.msgz = {[m EXCEPT !.dtm = Past(@, MaxLate + MaxInterval)] : m \in @},
            !.msgs = {[m EXCEPT !.dtm = Past(@, MaxLate + MaxInterval)] : m \in @},
            !.poller = [@ EXCEPT !.left = IF @ > 0 THEN @ - 1 ELSE 0,
                                 !.elapsed = IF poller.pc = "send" THEN @ + 1 ELSE @]])

NextDisc ==
    \/ \E call \in DiscCalls : AddDiscTask(call)
    \/ StartDiscovery
    \/ StopDiscovery
    \/ \E b \in BOOLEAN : SetDisableDiscovery(b)
    \/ \E msg \in Inbound : HandleMsg(msg)
    \/ PollerRuns
    \/ ForItem
    \/ SendReplied
    \/ SendTimedOut
    \/ \E exc \in {"TypeError", "Exception"} : SendRaised(exc)
    \/ Tick

SpecDisc == Init /\ [][NextDisc]_vars

\* The entity's message store on its own: messages are handled and time
\* passes.
NextStore ==
    \/ \E msg \in Handled : HandleMsg(msg)
    \/ Tick

SpecStore == Init /\ [][NextStore]_vars

\* The poller when the entity stores no message.  The event loop runs the
\* poller task when its sleep has ended and through its for statement,
\* wait_for raises TimeoutError when its timeout has passed, and time
\* passes: these steps are taken when they stay possible.
NextPoll ==
    \/ \E call \in DiscCalls : AddDiscTask(call)
    \/ StartDiscovery
    \/ StopDiscovery
    \/ \E b \in BOOLEAN : SetDisableDiscovery(b)
    \/ PollerRuns
    \/ ForItem
    \/ SendReplied
    \/ SendTimedOut
    \/ \E exc \in {"TypeError", "Exception"} : SendRaised(exc)
    \/ Tick

SpecPoll ==
    /\ Init /\ [][NextPoll]_vars
    /\ WF_vars(PollerRuns) /\ WF_vars(ForItem) /\ WF_vars(SendTimedOut) /\ WF_vars(Tick)

\* ------------------------------------------------------------ the claims
\* The commands that were taken from the queue and whose future is pending
InFlight == {c \in Cmds : futs[c].st = "pending" /\ c \notin que}

\* No expire_state_on_timeout task exists: none is referred to by
\* _expiry_timer, none sleeps unreferenced, none waits for its first step.
NoTimerPending ==
    /\ expiry_timer = "None"
    /\ orphans = 0
    /\ \A i \in 1..Len(ready) : ready[i].op # "timer"

\* The context's future is that of the command the state object waits for,
\* and it is pending.
FutureOfSentCmdPending ==
    st_sent_cmd # 0 /\ fut = st_sent_cmd /\ futs[fut].st = "pending"

NumWrites(r, c) == Cardinality({i \in 1..Len(r) : r[i] = Write(c)})

\* C1: the engine never tries to set a result or an exception on a future
\* that is already done or cancelled, under any interleaving of packets,
\* timers, the outer timeout, write errors and connection loss: set_state
\* never reaches its "Coding error" assertion with a cancelled future and
\* never has Future.set_result / set_exception raise InvalidStateError.
C1_FutureCompletedOnce ==
    err \cap {"FutCancelledAssert", "InvalidStateError"} = {}

\* C2: at most one command is in flight: at most one command taken from the
\* queue has a pending future, a dispatch round takes a command from the
\* queue only while no command is in flight, and whenever a handler (a
\* dispatch round, duplicate rounds included, or a retry) hands a command to
\* the transport, no other command is in flight.
C2_OneCommandInFlight ==
    [][/\ Cardinality(InFlight') <= 1
       /\ \A c \in Cmds :
            NumWrites(ready', c) > NumWrites(ready, c) => InFlight' \subseteq {c}
       /\ \A c \in Cmds :
            (c \in que /\ c \notin que' /\ cmd' = c) => InFlight = {}]_vars

\* C2, witness: a duplicate dispatch round is about to run while a command
\* is in flight and another one waits in the queue.
C2_DuplicateRoundWhileInFlight ==
    /\ state = WantEcho
    /\ InFlight # {}
    /\ PendingInQue(Ctx) # {}
    /\ ready # <<>> /\ Head(ready) = Check

\* C3: between two handlers, WantEcho / WantRply implies that the context
\* holds a command, its qos and a future, and Inactive / IsInIdle implies
\* that it holds no command and no qos and that its future is absent or
\* done (the assertions of is_sending hold).
C3_IsSendingConsistent ==
    /\ state \in {WantEcho, WantRply} => cmd # 0 /\ qos # 0 /\ fut # 0
    /\ state \in {Inactive, IsInIdle} =>
            cmd = 0 /\ qos = 0 /\ (fut = 0 \/ Done(futs[fut]))

\* C4: every accepted send() eventually returns.  A finite run refutes it
\* when the loop's only thread is blocked for ever in _lock.acquire() while
\* a send() has not returned: its future is pending, or it was cancelled by
\* the outer timeout and send_cmd still waits to be resumed.
C4_SendCanStillReturn ==
    hung => \A c \in Cmds :
                /\ futs[c].st # "pending"
                /\ \A i \in 1..Len(ready) : ready[i] # Tmo(c)

\* C5: in WantEcho, with the future of the command pending, a packet whose
\* header matches the command's tx_header moves the engine to WantRply
\* (future still pending) when the command has an rx_header, and to
\* IsInIdle with the future resolved to that packet when it has none; in
\* the latter case no echo/reply timer is left to fire afterwards.
C5_EchoReceived ==
    [][\A pkt \in Packets :
        (/\ state = WantEcho
         /\ FutureOfSentCmdPending
         /\ ReplaceHgi(pkt.hdr) = cmd_hdr[st_sent_cmd]
         /\ PktReceived(pkt))
        => IF RxHdr(sends[st_sent_cmd].kind) # NoHdr
           THEN state' = WantRply /\ futs'[st_sent_cmd].st = "pending"
           ELSE /\ state' = IsInIdle
                /\ futs'[st_sent_cmd] = FutResult(pkt)
                /\ NoTimerPending']_vars

\* C6: in WantRply, with the future of the command pending, a packet whose
\* header equals the command's rx_header and which is not the command
\* itself resolves the future with that packet and returns the engine to
\* IsInIdle; and the future of a send that waits for a reply gets a result
\* only in WantRply, after the echo of that command was observed.
C6_ReplyReceived ==
    [][/\ \A pkt \in Packets :
            (/\ state = WantRply
             /\ FutureOfSentCmdPending
             /\ pkt.hdr = RxHdr(sends[st_sent_cmd].kind)
             /\ pkt.frame # sends[st_sent_cmd].kind
             /\ PktReceived(pkt))
            => state' = IsInIdle /\ futs'[st_sent_cmd] = FutResult(pkt)
       /\ \A c \in Cmds :
            (/\ futs[c].st = "pending" /\ futs'[c].st = "result"
             /\ sends[c].wait_for_reply /\ RxHdr(sends[c].kind) # NoHdr)
            => state = WantRply /\ st_sent_cmd = c /\ st_echo_pkt # NoPkt]_vars

\* C7: when no echo and no reply arrives and nothing else intervenes, the
\* k-th transmission of a command is made while tx_count = k, an expiry of
\* the timer while tx_count < tx_limit returns to WantEcho with tx_count
\* one higher, no command is transmitted more than
\* min(qos.max_retries, MAX_RETRY_LIMIT) + 1 times, and a future is only
\* ever completed by failing with "Exceeded maximum retries" after exactly
\* that many transmissions, leaving the engine in IsInIdle.
QuietLimit(c) == Min(sends[c].max_retries, MAX_RETRY_LIMIT) + 1

C8_TxLimitAsStated ==
    state \in {WantEcho, WantRply} =>
        /\ 1 <= tx_count /\ tx_count <= tx_limit
        /\ st_sent_cmd # 0 =>
            tx_limit = Min(sends[st_sent_cmd].max_retries, MAX_RETRY_LIMIT) + 1

\* C8, amended: in WantEcho / WantRply, 1 <= tx_count <= tx_limit and
\* tx_limit = min(qos.max_retries, max_retry_limit, MAX_RETRY_LIMIT) + 1,
\* max_retry_limit being the constructor's argument; no command is handed
\* to the transport more than MAX_RETRY_LIMIT + 1 times; and a future gets
\* a result only while 1 <= tx_count <= tx_limit.
TxCountWithinLimit ==
    state \in {WantEcho, WantRply} =>
        /\ st_sent_cmd # 0
        /\ 1 <= tx_count /\ tx_count <= tx_limit
        /\ tx_limit = Min(Min(sends[st_sent_cmd].max_retries, max_retry_limit),
                          MAX_RETRY_LIMIT) + 1

C8_TxCountWithinLimit ==
    [][/\ TxCountWithinLimit'
       /\ \A c \in Cmds : txn'[c] <= MAX_RETRY_LIMIT + 1
       /\ \A c \in Cmds :
            (futs[c].st = "pending" /\ futs'[c].st = "result")
            => 1 <= tx_count /\ tx_count <= tx_limit]_vars

\* C8, witness: an engine constructed with max_retry_limit = 1 retransmits
\* a command whose qos asks for 5 retries: tx_count has reached tx_limit = 2.
C8_CtorLimitReached ==
    /\ state = WantEcho
    /\ max_retry_limit = 1
    /\ st_sent_cmd # 0 /\ sends[st_sent_cmd].max_retries = 5
    /\ tx_count = 2 /\ tx_limit = 2

C10_ConnectionLost ==
    [][(/\ ConnectionLost
        /\ state \in {WantEcho, WantRply} => FutureOfSentCmdPending)
       => /\ state' = Inactive
          /\ state \in {WantEcho, WantRply}
                => futs'[st_sent_cmd] = FutExc("Connection lost")
          /\ NoTimerPending']_vars

\* C11: connection_made moves the engine from Inactive to IsInIdle and
\* defers an effect_state, which (run while the engine is still IsInIdle)
\* schedules a dispatch round; in IsInIdle, WantEcho and WantRply
\* connection_made changes nothing: the state, the command in flight, the
\* counters, the timers, the future and the queue are as they were.
C11_ConnectionMade ==
    [][/\ ConnectionMade =>
            IF state = Inactive
            THEN state' = IsInIdle /\ ready' = Append(ready, Effect(FALSE))
            ELSE /\ state' = state /\ st_sent_cmd' = st_sent_cmd
                 /\ cmd' = cmd /\ qos' = qos /\ fut' = fut
                 /\ fut # 0 => futs'[fut] = futs[fut]
                 /\ tx_count' = tx_count /\ tx_limit' = tx_limit
                 /\ expiry_timer' = expiry_timer /\ orphans' = orphans
                 /\ que' = que /\ ready' = ready
       /\ (RunEffect /\ state = IsInIdle /\ Head(ready) = Effect(FALSE))
            => ready' = Append(Tail(ready), Check)]_vars

\* C11, witness: the connection was lost and made again before any send();
\* the engine is idle and the dispatch round that follows is scheduled.
C11_Reconnected ==
    /\ state = IsInIdle
    /\ nfault = 1
    /\ \A c \in Cmds : sends[c] = NoSend
    /\ ready # <<>> /\ ready[Len(ready)] = Check

\* C12: send() called while the engine is Inactive fails at once (it raises
\* before it creates a future): nothing is put in the queue, no callback is
\* scheduled, no future of the call is pending, and the state and the
\* context are unchanged.
C12_SendWhileInactive ==
    [][\A p \in Sends :
        (SendCmd(p) /\ state = Inactive)
        => /\ state' = Inactive
           /\ que' = que /\ ready' = ready
           /\ cmd' = cmd /\ qos' = qos /\ fut' = fut
           /\ \A c \in Cmds :
                /\ (sends[c] = NoSend /\ sends'[c] # NoSend) => futs'[c] = FutNone
                /\ futs'[c].st = "pending" => futs[c].st = "pending"]_vars

\* C12, witness: a send() was refused while the engine is Inactive, after
\* the connection was lost.
C12_SendRefused ==
    /\ state = Inactive
    /\ nfault > 0
    /\ \E c \in Cmds : sends[c] \in Sends /\ futs[c] = FutNone /\ c \notin que

\* C13: send() on a full queue fails (its future is cancelled, never
\* pending): the entry is not put in the queue, no callback is scheduled,
\* the queue, the state and the command in flight are unchanged; and the
\* queue never holds more entries than its capacity,
\* min(max_buffer_size, DEFAULT_BUFFER_SIZE).
C13_QueueOverflow ==
    [][/\ Cardinality(que') <= maxsize
       /\ \A p \in Sends :
            (SendCmd(p) /\ state # Inactive /\ Cardinality(que) >= maxsize)
            => /\ que' = que /\ ready' = ready
               /\ state' = state /\ st_sent_cmd' = st_sent_cmd
               /\ cmd' = cmd /\ qos' = qos /\ fut' = fut
               /\ \A c \in Cmds :
                    /\ (sends[c] = NoSend /\ sends'[c] # NoSend)
                            => futs'[c] = FutCancelled
                    /\ futs'[c].st = "pending" => futs[c].st = "pending"]_vars

\* The (priority, enqueue time) order of two sends, and the steps in which
\* a dispatch round takes a command from the queue and in which a command is
\* handed to the transport for the first time.
Precedes(c, d) ==
    \/ sends[c].prio < sends[d].prio
    \/ sends[c].prio = sends[d].prio /\ c < d
Taken(c) == c \in que /\ c \notin que' /\ cmd' = c
FirstWrite(c) == txn[c] = 0 /\ txn'[c] = 1

\* C14: a dispatch round that takes an entry from the queue takes the one
\* with the smallest (priority, enqueue time) among the entries whose future
\* is not done (lower numeric priority first, enqueue order among equal
\* priorities), and issues it: unless the engine is Inactive, the command is
\* handed to the transport.
C14_DispatchOrder ==
    [][\A c \in Cmds : Taken(c) =>
        /\ futs[c].st = "pending"
        /\ \A d \in que \ {c} : futs[d].st = "pending" => Precedes(c, d)
        /\ state # Inactive => NumWrites(ready', c) = NumWrites(ready, c) + 1]_vars

\* C15, as stated: of two sends whose futures are pending at the same time,
\* the one that comes first in (priority, enqueue time) order is the first
\* to be written to the transport.
C15_WireOrderAsStated ==
    \A c, d \in Cmds :
        (/\ futs[c].st = "pending" /\ futs[d].st = "pending"
         /\ Precedes(d, c) /\ txn[c] > 0)
        => txn[d] > 0

\* C15, amended: of two sends that waited in the queue at the same time
\* (both futures pending), the one that comes first in (priority, enqueue
\* time) order is the first to be written to the transport: when a command
\* is written for the first time, each send that waited with it and
\* precedes it was written before or has a future that is done, and no send
\* that waited with it and follows it was written yet.
C15_WireOrderOfQueued ==
    [][\A c \in Cmds : FirstWrite(c) =>
        \A d \in Cmds \ {c} : {c, d} \in waited =>
            IF Precedes(d, c) THEN txn[d] > 0 \/ futs[d].st # "pending"
            ELSE txn[d] = 0]_vars

\* C15, witness: a send of high priority that was queued after one of
\* default priority, while that one waited, was written first and has got
\* its result; the other is written and in flight.
C15_HighPriorityOvertook ==
    \E c, d \in Cmds :
        /\ {c, d} \in waited /\ c < d
        /\ sends[d].prio < sends[c].prio
        /\ txn[d] > 0 /\ futs[d].st = "result"
        /\ txn[c] > 0 /\ futs[c].st = "pending" /\ cmd = c

NumTimers(r) == Cardinality({i \in 1..Len(r) : r[i].op = "timer"})

\* C16: the future of a send with qos.wait_for_reply false that is the
\* command in flight gets as its result the echo, a packet with the
\* command's tx_header, and never the reply, whether the command has an
\* rx_header or not; and effect_state starts no reply timer for it.
C16_EchoIsTheResult ==
    [][/\ \A c \in Cmds :
            (/\ sends[c] \in Sends /\ ~sends[c].wait_for_reply
             /\ fut = c /\ st_sent_cmd = c
             /\ futs[c].st = "pending" /\ futs'[c].st = "result")
            => /\ ReplaceHgi(futs'[c].pkt.hdr) = cmd_hdr[c]
               /\ futs'[c].pkt.hdr # RxHdr(sends[c].kind)
       /\ (RunEffect /\ state = WantRply /\ qos # 0 /\ ~sends[qos].wait_for_reply)
            => NumTimers(ready') <= NumTimers(ready) /\ expiry_timer' # "new"]_vars

\* The write of command c raises TransportError, at once or after the task
\* was suspended in the transport.
WriteRaised(c) ==
    \/ WriteFails(c)
    \/ /\ RunWrite /\ Head(ready) = Write(c)
       /\ nfault' = nfault + 1 /\ writing' = writing

\* The context and the state object hold c as the command in flight, and
\* its future is pending.
InFlightPending(c) ==
    /\ state \in {WantEcho, WantRply}
    /\ cmd = c /\ fut = c /\ st_sent_cmd = c /\ futs[c].st = "pending"

Resolved(c) == futs[c].st = "pending" /\ futs'[c].st \in {"result", "exception"}

\* C18, as stated: the engine is Inactive or IsInIdle whenever the future
\* of a send is completed with a result or an exception, and whenever a
\* send fails by its outer timeout.
C18_IdleWhenSendEnds ==
    [][/\ \A c \in Cmds : Resolved(c) => state' \in {Inactive, IsInIdle}
       /\ RunTmo => state' \in {Inactive, IsInIdle}]_vars

\* C18, amended: the engine is Inactive or IsInIdle whenever the future of
\* a send is completed with a result or an exception, and whenever the send
\* of the command the context holds fails by its outer timeout; the outer
\* timeout of any other send leaves the state as it is.
C18_IdleWhenFutureResolved ==
    [][/\ \A c \in Cmds : Resolved(c) => state' \in {Inactive, IsInIdle}
       /\ RunTmo => IF cmd = Head(ready).arg THEN state' = IsInIdle
                    ELSE state' = state]_vars

\* C18, witness: the reply to the command in flight has resolved its
\* future, and the engine is idle.
C18_ResolvedAndIdle ==
    /\ state = IsInIdle
    /\ fut # 0 /\ futs[fut].st = "result"
    /\ futs[fut].pkt.hdr = RxHdr(sends[fut].kind)
    /\ sends[fut].wait_for_reply

\* What a sequence of add() and clr() calls leaves: the calls since the last
\* clr(), the message added last under a header, and the messages that were
\* not superseded, in the order of their add().
SinceClr(log) ==
    LET K == {k \in 1..Len(log) : log[k].op = "clr"}
        last == IF K = {} THEN 0 ELSE CHOOSE k \in K : \A j \in K : j <= k
    IN  SubSeq(log, last + 1, Len(log))

LastAdded(log, h) ==
    LET L == SinceClr(log)
        I == {i \in 1..Len(L) : MsgHdr(L[i].msg) = h}
    IN  IF I = {} THEN NoMsg ELSE L[CHOOSE i \in I : \A j \in I : j <= i].msg

Survivors(log) ==
    LET L == SinceClr(log)
        keep(i) == \A j \in (i + 1)..Len(L) : MsgHdr(L[j].msg) # MsgHdr(L[i].msg)
        F[n \in 0..Len(L)] ==
            IF n = 0 THEN <<>>
            ELSE IF keep(n) THEN Append(F[n - 1], L[n].msg) ELSE F[n - 1]
    IN  F[Len(L)]

\* C19: add(m) returns the message that was last added under m's header
\* since the last clr(), and nothing when there is none; after add(m) the
\* index contains m's header and m's code, and m is the row found under its
\* header.
C19_AddReturnsReplaced ==
    [][\A m \in Messages : MessageIndexAdd(m) =>
        /\ add_ret' = LastAdded(oplog, MsgHdr(m))
        /\ contains_hdr(msgs', MsgHdr(m))
        /\ contains_code(msgs', m.code)
        /\ \E i \in 1..Len(msgs') :
                msgs'[i] = m /\ \A j \in 1..Len(msgs') :
                                    MsgHdr(msgs'[j]) = MsgHdr(m) => j = i]_vars

\* C19, witness: a message was added, then another one with the same
\* header, which returned the first, then one with a different code, which
\* returned nothing.
C19_ReplacedThenAdded ==
    /\ Len(oplog) = 3
    /\ oplog[1].msg.payload = "007FFF" /\ oplog[2].msg.payload = "001230"
    /\ oplog[3].msg.code = "2309"
    /\ add_ret = NoMsg
    /\ Len(msgs) = 2

\* C20: after any sequence of add() and clr() calls the index holds at most
\* one row per header; all() is, in the order of their add(), the messages
\* added since the last clr() that no later add() with the same header has
\* superseded; and right after clr() all() is empty.
C20_OneRowPerHeader ==
    [][/\ \A i, j \in 1..Len(msgs') :
            MsgHdr(msgs'[i]) = MsgHdr(msgs'[j]) => i = j
       /\ all_rows(msgs') = Survivors(oplog')
       /\ MessageIndexClr => all_rows(msgs') = <<>>]_vars

\* C20, witness: a message was added and superseded, the index was cleared
\* and a message added again.
C20_ClearedAndRefilled ==
    /\ Len(oplog) = 4
    /\ oplog[1].op = "add" /\ oplog[2].op = "add"
    /\ MsgHdr(oplog[1].msg) = MsgHdr(oplog[2].msg)
    /\ oplog[3].op = "clr" /\ oplog[4].op = "add"
    /\ Len(msgs) = 1

\* C21: qry_field raises ValueError for exactly the statements whose first
\* token after any leading whitespace is not SELECT (also when SELECT occurs
\* later in the statement), and no call of qry_field, accepted or rejected,
\* adds, removes or alters a row of the index.
C21_QryFieldReadOnly ==
    [][\A st \in Statements, party \in Parties :
        MessageIndexQryField(st, party) =>
            /\ msgs' = msgs
            /\ qry_ret'.exc = "ValueError" <=>
                    ~\E i \in 1..Len(st.text) :
                        /\ st.text[i] = "SELECT"
                        /\ \A j \in 1..(i - 1) : st.text[j] \in Whitespace]_vars

\* C21, witness: a statement that deletes rows and holds a SELECT further on
\* was rejected while the index held three rows.
C21_DeleteRejected ==
    /\ qry.op = "qry_field"
    /\ qry.sql.text[1] = "DELETE"
    /\ \E i \in 1..Len(qry.sql.text) : qry.sql.text[i] = "SELECT"
    /\ qry_ret.exc = "ValueError"
    /\ Len(msgs) = 3

\* C22: contains(), called with any subset of code, verb, src, dst, ctx and
\* plk, is true iff some stored row has every supplied field at once: code,
\* verb, src, dst and ctx are equal to the row's, and the given plk is a
\* substring of the row's plk, which holds the row's payload keys whose
\* value is not None, framed by "|".
C22_ContainsBySubstring ==
    [][\A q \in Queries : MessageIndexContains(q) =>
        (qry_ret'.has <=>
            \E i \in 1..Len(msgs) :
                /\ q.code = "" \/ msgs[i].code = q.code
                /\ q.verb = "" \/ msgs[i].verb = q.verb
                /\ q.src = "" \/ msgs[i].src = q.src
                /\ q.dst = "" \/ msgs[i].dst = q.dst
                /\ q.ctx = "" \/ MsgCtx(msgs[i]) = q.ctx
                /\ q.plk = <<>> \/ IsSubstring(q.plk, Plk(msgs[i])))]_vars

\* The poller begins to send the command of the i-th task.
PollerSends(i) ==
    /\ poller'.pc = "send" /\ poller'.i = i
    /\ ~(poller.pc = "send" /\ poller.i = i)

\* The stored messages that match a task: their header is the task's
\* rx_header with the verb I or RP.
Matching(task) ==
    {m \in msgz : \E v \in {I_, RP} :
        m.hdr = SubSeq(task.hdr, 1, 5) \o v \o SubSeq(task.hdr, 8, Len(task.hdr))}
RecentlySeen(task) ==
    {m \in Matching(task) : m.dtm + task.interval > task.next_due}

\* C23: the poller sends the command of a task only if discovery is
\* enabled, the task's next_due <= now, and no stored matching inbound
\* message m has m.dtm + interval > next_due; when there is such a message
\* for the task the poller comes to, the task is rescheduled from it
\* (last_msg, last_ran, next_due) and its command is not sent.
C23_SendsOnlyWhenDue ==
    [][/\ \A i \in 1..Len(disc_tasks) : PollerSends(i) =>
            /\ ~disable_discovery
            /\ disc_tasks[i].next_due <= dt_now
            /\ RecentlySeen(disc_tasks[i]) = {}
       /\ \A i \in 1..Len(disc_tasks) :
            (ForItem /\ poller.i = i /\ RecentlySeen(disc_tasks[i]) # {}) =>
                /\ ~PollerSends(i)
                /\ disc_tasks'[i].last_msg \in RecentlySeen(disc_tasks[i])
                /\ disc_tasks'[i].last_ran = <<disc_tasks'[i].last_msg.dtm>>
                /\ disc_tasks'[i].next_due =
                        disc_tasks'[i].last_msg.dtm + disc_tasks[i].interval]_vars

\* The poller task exists and has not ended; a task with the rx_header h is
\* registered and due; the poller awaits the send of its command.
PollerAlive == poller.pc \in {"new", "sleep", "for", "send"}
Registered(h) == \E i \in 1..Len(disc_tasks) : disc_tasks[i].hdr = h
Due(h) == \E i \in 1..Len(disc_tasks) :
    disc_tasks[i].hdr = h /\ disc_tasks[i].next_due <= dt_now
Sending(h) == poller.pc = "send" /\ disc_tasks[poller.i].hdr = h
RxHeaders == {c.rx_header : c \in DiscCmds}

\* C24: whenever a registered task is due while discovery is enabled and the
\* poller runs, and no matching inbound message is stored, its command is
\* eventually sent, unless discovery is disabled or the poller ends first;
\* and when discovery stays enabled and the poller keeps running, the
\* command of every registered task is sent again and again, also when the
\* sends of another task time out.
C24_DueTaskIsSent ==
    \A h \in RxHeaders :
        /\ (Due(h) /\ PollerAlive /\ ~disable_discovery)
                ~> (Sending(h) \/ ~PollerAlive \/ disable_discovery)
        /\ <>[](Registered(h) /\ PollerAlive /\ ~disable_discovery) => []<>Sending(h)

\* C24, witness: the command of the second task is sent right after the
\* send of the first task, which is still due and has never had a reply,
\* returned nothing.
C24_SentAfterFailedSend ==
    /\ poller.pc = "send" /\ poller.i = 2 /\ poller.elapsed = 0
    /\ disc_tasks[1].next_due < dt_now
    /\ disc_tasks[1].last_ran = <<>>
    /\ ~disable_discovery

\* C25: _add_disc_task with a command whose rx_header is registered raises
\* ValueError and leaves every task record as it is; otherwise it appends
\* one record for the command, with the interval given, next_due = now +
\* delay, no last_msg and no last_ran, and leaves the other records as they
\* are; so there is at most one task per rx_header.
C25_AddDiscTask ==
    [][/\ disc_call'.op = "_add_disc_task" =>
            LET command == CHOOSE c \in DiscCmds : c.id = disc_call'.command
            IN  IF \E i \in 1..Len(disc_tasks) : disc_tasks[i].hdr = command.rx_header
                THEN disc_call'.exc = "ValueError" /\ disc_tasks' = disc_tasks
                ELSE /\ disc_call'.exc = ""
                     /\ Len(disc_tasks') = Len(disc_tasks) + 1
                     /\ SubSeq(disc_tasks', 1, Len(disc_tasks)) = disc_tasks
                     /\ LET task == disc_tasks'[Len(disc_tasks')]
                        IN  /\ task.hdr = command.rx_header
                            /\ task.command = command
                            /\ task.interval = disc_call'.interval
                            /\ task.next_due = dt_now + disc_call'.delay
                            /\ task.last_msg = NoMessage
                            /\ task.last_ran = <<>>
       /\ \A i, j \in 1..Len(disc_tasks') :
            disc_tasks'[i].hdr = disc_tasks'[j].hdr => i = j]_vars

\* C25, witness: a task that has run (its last_msg is a reply) is still
\* registered with its command after a second command with the same
\* rx_header was rejected.
C25_DuplicateRejected ==
    /\ disc_call.exc = "ValueError" /\ disc_call.command = 3
    /\ Len(disc_tasks) = 2
    /\ \E i \in 1..2 :
        /\ disc_tasks[i].command.id = 1
        /\ disc_tasks[i].last_msg # NoMessage
        /\ disc_tasks[i].last_ran # <<>>

\* A step hands the command of a queued entry to the transport: the entry
\* leaves the queue and its write is scheduled.
Transmits(c) == c \in que /\ \E i \in 1..Len(ready') : ready'[i] = Write(c)

\* C27: a dispatch round never transmits a queued entry whose future is done
\* (cancelled included): no step schedules the write of such an entry or
\* makes it the command in flight; and a round that pops entries removes
\* every done entry that is ahead of all the pending ones.
C27_DoneEntriesDiscarded ==
    [][/\ \A c \in que : Done(futs[c]) =>
            /\ ~Transmits(c)
            /\ txn'[c] = txn[c]
            /\ c \notin que' => cmd' # c
       /\ (RunCheck /\ que' # que) =>
            \A c \in que :
                (Done(futs[c]) /\ \A d \in que : ~Done(futs[d]) => Precedes(c, d))
                    => c \notin que']_vars

\* A cancelled entry was in the queue together with a pending one; a round
\* has dropped it and has dispatched the other, before the cancelled send
\* resumed.
C27_CancelledEntrySkipped ==
    /\ futs[1].st = "cancelled" /\ 1 \notin que /\ txn[1] = 0
    /\ \E i \in 1..Len(ready) : ready[i] = Tmo(1)
    /\ {1, 2} \in waited
    /\ cmd = 2 /\ futs[2].st = "pending" /\ state = WantEcho

\* The queue holds an entry whose future is pending.
Work == \E c \in que : futs[c].st = "pending"

\* C26 as stated: whenever the engine is in IsInIdle and the queue holds an
\* entry whose future is pending, an entry is eventually dispatched and the
\* engine enters WantEcho.
C26_DispatchedAsStated == (state = IsInIdle /\ Work) ~> (state = WantEcho)

\* C26: the engine never rests in IsInIdle with dispatchable work: whenever
\* it is in IsInIdle and the queue holds an entry whose future is pending,
\* eventually an entry is dispatched and it is in WantEcho, or the
\* connection is lost, or no queued entry is pending any more (the sends
\* have timed out); and it leaves IsInIdle with such work for WantEcho or
\* Inactive only.
C26_NeverRestsIdleWithWork ==
    /\ (state = IsInIdle /\ Work) ~> (state = WantEcho \/ state = Inactive \/ ~Work)
    /\ [][(state = IsInIdle /\ Work /\ state' # IsInIdle)
            => state' \in {WantEcho, Inactive}]_vars

\* The engine has entered IsInIdle after a result while a second send
\* waits in the queue.
C26_IdleAfterResultWithWork ==
    /\ state = IsInIdle /\ futs[1].st = "result"
    /\ 2 \in que /\ futs[2].st = "pending"

\* The expire_state_on_timeout tasks that have been created and have
\* neither ended nor been cancelled
TimersPending ==
    (IF expiry_timer # "None" THEN 1 ELSE 0) + orphans
        + Cardinality({i \in 1..Len(ready) : ready[i] = TimerTask(Orphan)})

\* C28: at most one echo/reply expiry timer is pending at any time, and a
\* timer is pending only while the engine is in WantEcho or WantRply (the
\* first two parts of the claim).
C28_OneExpiryTimer ==
    /\ TimersPending <= 1
    /\ TimersPending > 0 => state \in {WantEcho, WantRply}

\* A step that leaves the engine as it was: its state, its counters, its
\* timers, its queue, the scheduled callbacks and every future (a send that
\* nothing refers to any more may be forgotten), and that raises nothing.
NothingChanged ==
    /\ state' = state /\ st_sent_cmd' = st_sent_cmd /\ st_echo_pkt' = st_echo_pkt
    /\ cmd' = cmd /\ qos' = qos /\ fut' = fut
    /\ tx_count' = tx_count /\ tx_limit' = tx_limit
    /\ expiry_timer' = expiry_timer /\ orphans' = orphans
    /\ que' = que /\ ready' = ready /\ txn' = Ctx.txn
    /\ \A c \in Cmds : futs'[c] = futs[c] \/ (Gone(c) /\ futs'[c] = FutGone)
    /\ err' = {}

\* C29: in WantEcho a packet whose header is the command's rx_header and
\* whose destination is the command's source changes nothing (state,
\* tx_count, the echo timer, the future), and in WantRply a packet that is
\* the sent command changes nothing; neither raises an error.
C29_FalseReplyIgnored ==
    [][\A pkt \in Packets :
        (/\ st_sent_cmd # 0
         /\ \/ /\ state = WantEcho
               /\ RxHdr(sends[st_sent_cmd].kind) # NoHdr
               /\ pkt.hdr = RxHdr(sends[st_sent_cmd].kind)
               /\ pkt.dst = CmdSrc(sends[st_sent_cmd].kind)
            \/ /\ state = WantRply
               /\ pkt.frame = sends[st_sent_cmd].kind
         /\ PktReceived(pkt))
        => NothingChanged]_vars

\* The engine waits for the echo of a request, its timer runs, its future
\* is pending, and a packet can arrive.
C29_WaitingForEchoOfRequest ==
    /\ state = WantEcho /\ st_sent_cmd # 0 /\ Outside
    /\ RxHdr(sends[st_sent_cmd].kind) # NoHdr
    /\ expiry_timer = "sleeping" /\ tx_count = 1
    /\ FutureOfSentCmdPending

\* The packet has one of the headers the state object waits for.
Expected(pkt) ==
    /\ st_sent_cmd # 0
    /\ \/ ReplaceHgi(pkt.hdr) = cmd_hdr[st_sent_cmd]
       \/ pkt.hdr = RxHdr(sends[st_sent_cmd].kind)

\* C30: a packet received while the engine is Inactive or IsInIdle changes
\* nothing (state, queue, futures) and raises nothing, whatever its header;
\* and so does, in WantEcho and WantRply, a packet that has neither the
\* tx_header nor the rx_header of the command: in every state the engine
\* reaches, pkt_received returns with the context as it was.
C30_UnexpectedPacketIgnored ==
    \A pkt \in Packets :
        (\/ state \in {Inactive, IsInIdle}
         \/ state \in {WantEcho, WantRply} /\ ~Expected(pkt))
        => pkt_received(Ctx, pkt) = Ctx

\* The engine is idle with a send queued and its dispatch round scheduled,
\* and a packet can arrive.
C30_IdleWithWorkQueued ==
    /\ state = IsInIdle /\ Outside
    /\ Work /\ \E i \in 1..Len(ready) : ready[i] = Check

\* C31 as stated: in WantEcho a packet whose header matches is accepted as
\* the echo only if its destination is the source of the command in flight;
\* with any other destination the engine stays in WantEcho and the future
\* stays pending.
C31_EchoNeedsDstAsStated ==
    [][\A pkt \in Packets :
        (/\ state = WantEcho
         /\ FutureOfSentCmdPending
         /\ ReplaceHgi(pkt.hdr) = cmd_hdr[st_sent_cmd]
         /\ pkt.dst # CmdSrc(sends[st_sent_cmd].kind)
         /\ PktReceived(pkt))
        => state' = WantEcho /\ futs'[st_sent_cmd].st = "pending"]_vars

\* C31: in WantEcho, while the future of the command in flight is pending,
\* a packet is accepted as the echo on the match of its header alone,
\* whatever its destination: the engine leaves WantEcho, for WantRply when
\* the command has an rx_header and for IsInIdle with the packet as the
\* result when it has none.
C31_EchoAcceptedByHeader ==
    [][\A pkt \in Packets :
        (/\ state = WantEcho
         /\ FutureOfSentCmdPending
         /\ ReplaceHgi(pkt.hdr) = cmd_hdr[st_sent_cmd]
         /\ PktReceived(pkt))
        => /\ state' = IF RxHdr(sends[st_sent_cmd].kind) # NoHdr
                       THEN WantRply ELSE IsInIdle
           /\ st_echo_pkt' = IF state' = WantRply THEN pkt ELSE NoPkt
           /\ state' = IsInIdle => futs'[st_sent_cmd] = FutResult(pkt)]_vars

\* The echo of a request was accepted although its destination, the
\* controller, is not the source of the command.
C31_EchoToControllerAccepted ==
    /\ state = WantRply /\ st_sent_cmd # 0
    /\ st_echo_pkt.hdr = TxHdr("RQ")
    /\ st_echo_pkt.dst = CTL_ID
    /\ st_echo_pkt.dst # CmdSrc(sends[st_sent_cmd].kind)

\* A header with the sentinel gateway id replaced by the local interface's
\* id, as the claims speak of it
Rewritten(h) == <<h[1], h[2], IF h[3] = "18:000730" THEN hgi_id ELSE h[3]>>

\* C32: in WantEcho, while the future of the command in flight is pending,
\* a packet is taken as the echo when its header and the command's
\* tx_header are equal after both are rewritten (so the echo of a command
\* with the sentinel in its tx_header may carry the local id or the
\* sentinel), and a packet whose header differs after rewriting is never
\* taken as the echo.
C32_EchoMatchedAfterRewriting ==
    [][\A pkt \in Packets :
        (/\ state = WantEcho
         /\ FutureOfSentCmdPending
         /\ PktReceived(pkt))
        => IF Rewritten(pkt.hdr) = Rewritten(TxHdr(sends[st_sent_cmd].kind))
           THEN state' # WantEcho
                /\ (RxHdr(sends[st_sent_cmd].kind) = NoHdr
                        => futs'[st_sent_cmd] = FutResult(pkt))
           ELSE state' = WantEcho /\ st_echo_pkt' = st_echo_pkt
                /\ futs'[st_sent_cmd].st = "pending"]_vars

\* A command with the sentinel id in its tx_header was completed by an echo
\* that carries the local interface's id.
C32_CompletedByEchoWithLocalId ==
    \E c \in Cmds :
        /\ TxHdr(sends[c].kind)[3] = HGI_DEVICE_ID
        /\ futs[c].st = "result"
        /\ futs[c].pkt.hdr[3] = hgi_id

\* C33 as stated: tx_count and tx_limit are both defined exactly when the
\* engine is in WantEcho or WantRply, and both are undefined when it is
\* Inactive or IsInIdle.
C33_CountersAsStated ==
    /\ state \in {WantEcho, WantRply} => tx_count > 0 /\ tx_limit > 0
    /\ state \in {Inactive, IsInIdle} => tx_count = 0 /\ tx_limit = 0

\* C33: tx_count is defined exactly when the engine is in WantEcho or
\* WantRply, and tx_limit is then defined too, with tx_count <= tx_limit;
\* tx_limit is not reset when a send ends: entering Inactive or IsInIdle
\* leaves it as it was.
C33_CountDefinedWhileSending ==
    /\ []((state \in {WantEcho, WantRply}) <=> tx_count > 0)
    /\ [](tx_count > 0 => tx_limit > 0 /\ tx_count <= tx_limit)
    /\ [][state' \in {Inactive, IsInIdle} => tx_limit' = tx_limit]_vars

\* A send has ended: the engine is idle, the counter is undefined and the
\* limit of the last command is still there.
C33_LimitLeftAfterSend ==
    /\ state = IsInIdle /\ cmd = 0
    /\ tx_count = 0 /\ tx_limit > 0

\* The i-th task has been rescheduled from the message it now holds.
RescheduledFrom(i) ==
    /\ disc_tasks'[i].last_msg # NoMessage
    /\ disc_tasks'[i].last_ran = <<disc_tasks'[i].last_msg.dtm>>
    /\ disc_tasks'[i].next_due = disc_tasks'[i].last_ran[1] + disc_tasks[i].interval
    /\ disc_tasks'[i] = [disc_tasks[i] EXCEPT !.last_msg = disc_tasks'[i].last_msg,
                                              !.last_ran = disc_tasks'[i].last_ran,
                                              !.next_due = disc_tasks'[i].next_due]

\* C34: whenever the poller handles a task by accepting a stored message or
\* by receiving a reply to a send, it sets last_ran = last_msg.dtm and
\* next_due = last_ran + interval; when the send times out or yields no
\* reply, the task's last_msg, last_ran and next_due are left unchanged and
\* the poller goes on to the next task, so the task is tried again on the
\* next round.
C34_RescheduledFromMessage ==
    [][/\ (poller.pc \in {"for", "send"} /\ poller'.pc = "for") =>
            \A i \in 1..Len(disc_tasks) :
                /\ disc_tasks'[i] # disc_tasks[i] => i = poller.i /\ RescheduledFrom(i)
       /\ (poller.pc = "send" /\ poller'.pc = "for" /\ SendReplied) =>
            /\ RescheduledFrom(poller.i)
            /\ disc_tasks'[poller.i].last_msg.hdr = disc_tasks[poller.i].hdr
            /\ disc_tasks'[poller.i].last_msg.dtm = dt_now
       /\ (poller.pc = "for" /\ poller'.pc = "for" /\ poller.i <= Len(disc_tasks)
                /\ disc_tasks'[poller.i].last_msg \in msgz) =>
            RescheduledFrom(poller.i)
       /\ (poller.pc = "send" /\ poller'.pc = "for"
                /\ (SendTimedOut \/ SendRaised("TypeError"))) =>
            /\ disc_tasks' = disc_tasks
            /\ poller'.i = poller.i + 1]_vars

\* C34, witness: the poller has gone past the first task, which had a reply
\* on an earlier round and was due on this one: its send returned nothing,
\* and it is as it was, still due and scheduled from the earlier reply.
C34_LeftAsItWasAfterTimeout ==
    /\ poller.pc = "for" /\ poller.i = 2
    /\ disc_tasks[1].next_due <= dt_now
    /\ disc_tasks[1].last_msg # NoMessage
    /\ disc_tasks[1].last_ran = <<disc_tasks[1].last_msg.dtm>>
    /\ disc_tasks[1].next_due = disc_tasks[1].last_ran[1] + disc_tasks[1].interval

\* C35: the engine leaves Inactive only through connection_made: no
\* dispatch round, timer expiry, packet, write error or outer timeout moves
\* it from Inactive to another state, and no command is handed to the
\* transport while it is Inactive, even when a dispatch round that was
\* scheduled while IsInIdle runs after connection_lost with entries queued.
C35_InactiveUntilConnectionMade ==
    [][/\ (state = Inactive /\ state' # Inactive) => ConnectionMade
       /\ (state = Inactive /\ que # {} /\ RunCheck) => (state' = Inactive /\ txn' = txn)
       /\ txn' # txn => state # Inactive]_vars

\* C36: when the expected echo arrives after the echo timer has expired
\* (tx_count already incremented) but before the deferred retransmission
\* step runs, that step does not fail the send: the retransmission step
\* (effect_state with timed_out) never runs with the in-flight command
\* cleared and never raises ProtocolFsmError into the in-flight future.
C36_RetransmissionStepAfterEcho ==
    [][(Runs("effect") /\ Head(ready).arg = 1 /\ RunEffect) =>
            /\ cmd # 0
            /\ fut # 0 => ~(futs[fut].st = "pending"
                            /\ futs'[fut].exc = "ProtocolFsmError")]_vars

\* C37: a TransportError raised by the asynchronous write of command A
\* only ever fails A's future: when that write fails after another command
\* B has become the in-flight command, B's future is not failed and B's
\* progress (state, tx_count, timer) is unaffected.
C37_WriteErrorFailsOwnFuture ==
    [][\A a \in Cmds :
        (a \in writing /\ fut \notin {0, a} /\ futs[fut].st = "pending"
                /\ WriteFails(a)) =>
            /\ futs'[fut] = futs[fut]
            /\ state' = state /\ tx_count' = tx_count
            /\ expiry_timer' = expiry_timer]_vars

\* C38: connection_lost does not remove or fail the sends that are queued
\* but not yet dispatched: the queue is unchanged by it and while the engine
\* is Inactive, a queued future stays pending until its own outer timeout,
\* and the entries still pending after a later connection_made are
\* dispatched in (priority, enqueue time) order.
C38_QueuedSendsSurviveConnectionLoss ==
    [][/\ (Outside /\ state # Inactive /\ state' = Inactive /\ ConnectionLost) =>
            /\ que' = que
            /\ \A c \in que : futs'[c] = futs[c]
       /\ state = Inactive =>
            /\ que' = que
            /\ \A c \in que : (futs[c].st = "pending" /\ futs'[c].st # "pending") =>
                    futs'[c] = FutCancelled
       /\ (cmd' # cmd /\ cmd' # 0) =>
            \A d \in que \ {cmd'} : futs[d].st = "pending" => Before(Ctx, cmd', d)]_vars

\* C39: over the poller's iterations the next_due of a task never
\* decreases, and one stored message defers a task at most once: the poller
\* defers a task (reschedules it without a send) only from a stored message
\* other than the one the task was last scheduled from, and to a later
\* next_due; so the command of a task that is due is sent on the round that
\* comes to it unless a newer message has arrived.
C39_NextDueNeverDecreases ==
    [][\A i \in 1..Len(disc_tasks) :
        /\ (poller.pc \in {"for", "send"} /\ poller'.pc = "for") =>
                disc_tasks'[i].next_due >= disc_tasks[i].next_due
        /\ (poller.pc = "for" /\ poller'.pc = "for" /\ poller.i = i
                /\ disc_tasks'[i] # disc_tasks[i]) =>
                /\ disc_tasks'[i].last_msg \in msgz
                /\ disc_tasks'[i].last_msg # disc_tasks[i].last_msg
                /\ disc_tasks'[i].next_due > disc_tasks[i].next_due
        /\ (poller.pc = "for" /\ poller.i = i /\ Len(disc_tasks) = poller.size
                /\ disc_tasks[i].next_due <= dt_now
                /\ Matching(disc_tasks[i]) \subseteq {disc_tasks[i].last_msg}) =>
                poller'.pc = "send"]_vars

\* C39, witness: the command of the first task is sent again on a later
\* round: the task was scheduled from a reply before, it is due, and a
\* matching message is stored.
C39_SentAgainWithMessageStored ==
    /\ poller.pc = "send" /\ poller.i = 1
    /\ disc_tasks[1].last_msg # NoMessage
    /\ disc_tasks[1].next_due <= dt_now
    /\ Matching(disc_tasks[1]) # {}

\* C40: after any sequence of _handle_msg calls the store holds one message
\* per (code, verb, ctx), the most recently handled one, and _msgs[code] is
\* the most recently handled I or RP message of that code: an RQ or W
\* message never replaces a _msgs entry, and handling a message leaves the
\* entries of the other (code, verb, ctx) keys, and of the other codes, as
\* they were.
C40_StoreHoldsLatest ==
    /\ [](\A m, n \in msgz :
            <<m.code, m.verb, m.ctx>> = <<n.code, n.verb, n.ctx>> => m = n)
    /\ [](/\ \A m, n \in _msgs : m.code = n.code => m = n
          /\ \A m \in _msgs :
                /\ m.verb \in {I_, RP} /\ m \in msgz
                /\ \A n \in msgz : (n.code = m.code /\ n.verb \in {I_, RP}) => n.dtm <= m.dtm
          /\ \A n \in msgz : n.verb \in {I_, RP} => \E m \in _msgs : m.code = n.code)
    /\ [][\A msg \in Handled : (msg \in msgz' /\ HandleMsg(msg)) =>
            /\ {m \in msgz' : <<m.code, m.verb, m.ctx>> # <<msg.code, msg.verb, msg.ctx>>}
                    = {m \in msgz : <<m.code, m.verb, m.ctx>> # <<msg.code, msg.verb, msg.ctx>>}
            /\ {m \in _msgs' : m.code # msg.code} = {m \in _msgs : m.code # msg.code}
            /\ IF msg.verb \in {I_, RP} THEN msg \in _msgs' ELSE _msgs' = _msgs]_vars

\* C40, witness: an RQ message was handled after the I message of its code
\* and after an I message of the same code and another context: the store
\* holds all three and _msgs holds the older I message.
C40_RequestHandledAfterInform ==
    \E m \in _msgs : \E n, o \in msgz :
        /\ m.verb = I_ /\ m.ctx = "False"
        /\ n.code = m.code /\ n.verb = RQ /\ n.dtm > m.dtm
        /\ o.code = m.code /\ o.verb = I_ /\ o.ctx = "01" /\ o.dtm < m.dtm

====
